---- MODULE Spec2Model ----
(***************************************************************************)
(* A model of the privacy-policy scraper of OpenPoliSys:                   *)
(*   src/src/WebScraper/WebScraper.py  (class WebScraper)                  *)
(*   src/src/main.py                   (save_to_csv and the batch loop)    *)
(*                                                                         *)
(* One pass of the batch loop over one domain is modelled step by step:    *)
(* every driver.get is one step whose outcome (timeout, other error, or    *)
(* the page the browser ends on) is chosen by the web.  Strings are real   *)
(* strings; "in", lower(), startswith and urljoin are computed on them.    *)
(*                                                                         *)
(*   Spec         one pass, on a web that may answer any probe anyhow      *)
(*   SpecRank     the ranking of the homepage's anchors alone              *)
(*   SpecExtract  extract_policies alone, on every candidate list          *)
(*   SpecBatch    the loop over a list of domains (FairBatch: run to end)  *)
(*   SpecRerun    extract_policies called again on the same session        *)
(*   SpecPair     two WebScraper objects whose steps are interleaved       *)
(*   SpecScroll   scroll_to_bottom alone (FairScroll: run to its end)      *)
(***************************************************************************)
EXTENDS Integers, Sequences, FiniteSets, TLC

\* ------------------------------------------------------------------ bounds

\* The longest prefix of an anchor pool a homepage shows.
MaxLinks == 7

\* ----------------------------------------------------------------- strings

\* str.lower() on the letters the model's strings use.
LowerChar(c) ==
  CASE c = "A" -> "a" [] c = "B" -> "b" [] c = "C" -> "c" [] c = "D" -> "d"
    [] c = "E" -> "e" [] c = "F" -> "f" [] c = "G" -> "g" [] c = "H" -> "h"
    [] c = "I" -> "i" [] c = "J" -> "j" [] c = "K" -> "k" [] c = "L" -> "l"
    [] c = "M" -> "m" [] c = "N" -> "n" [] c = "O" -> "o" [] c = "P" -> "p"
    [] c = "Q" -> "q" [] c = "R" -> "r" [] c = "S" -> "s" [] c = "T" -> "t"
    [] c = "U" -> "u" [] c = "V" -> "v" [] c = "W" -> "w" [] c = "X" -> "x"
    [] c = "Y" -> "y" [] c = "Z" -> "z" [] OTHER -> c

\* The characters of s from position k on, lower-cased.
RECURSIVE LowerFrom(_, _)
LowerFrom(s, k) ==
  IF k > Len(s) THEN ""
  ELSE LowerChar(SubSeq(s, k, k)) \o LowerFrom(s, k + 1)

Lower(s) == LowerFrom(s, 1)

\* Python's  sub in s  on strings.
Contains(sub, s) ==
  \E k \in 1..(Len(s) - Len(sub) + 1) : SubSeq(s, k, k + Len(sub) - 1) = sub

\* Python's  s.startswith(prefix).
StartsWith(s, prefix) ==
  /\ Len(prefix) <= Len(s)
  /\ SubSeq(s, 1, Len(prefix)) = prefix

\* domain_url.startswith(('http://', 'https://'))
HasScheme(s) == StartsWith(s, "http://") \/ StartsWith(s, "https://")


\* ---------------------------------------------------------------- constants

\* Mutant: a third well-known suffix is probed.
direct_paths_Three == <<"/privacy", "/privacy-policy", "/legal">>

\* WebScraper.direct_paths
direct_paths == <<"/privacy", "/privacy-policy">>

\* WebScraper.privacy_name_list
privacy_name_list ==
  << "Privacy Policy", "Privacy Statement", "Privacy-statement",
     "Privacy Notice", "Privacy-notice", "privacy", "privacy-policy",
     "Privacy Centre and Ad Choices", "Privacy Centre & Ad Choices",
     "Privacy Centre", "Privacy-Centre", "Terms & Privacy Policy",
     "Terms and Privacy Policy" >>

\* The alternatives of the 404 pattern of page_is_valid_privacy_page.  The
\* last one is spelled with a typographic apostrophe in the source.
page_not_found_patterns ==
  << "page you are looking for cannot be found", "Page not found",
     "Content not found", "ERROR 404", "404 ERROR", "404 Not Found",
     "Sorry but the page", "404 page",
     "Sorry, the page you were looking for was not found", "404 Page",
     "That's an error" >>

\* candidate_privacy_url_sorted[:5]
TopCandidates == 5

\* ------------------------------------------------------------------ the web

\* The domains the batch loop is given.
Inputs == {"ex.com", "https://ex.com"}

\* A page the browser can end on after driver.get: the post-redirect URL,
\* the title, the page source, and the text BeautifulSoup yields for it once
\* the boilerplate elements are removed.
PgPolicy ==
  [current_url |-> "https://ex.com/privacy", title |-> "Privacy Policy",
   page_source |-> "<p>our policy</p>", text |-> "abcdefghij"]
PgVendor ==
  [current_url |-> "https://cdn.io/p", title |-> "Oops",
   page_source |-> "<p>PRIVACY: 404 Not Found</p>", text |-> "abcdefgxyz"]
PgHome ==
  [current_url |-> "https://ex.com/", title |-> "Ex",
   page_source |-> "<a>Privacy</a>", text |-> ""]
PgWww ==
  [current_url |-> "https://www.ex.com/", title |-> "Privacy",
   page_source |-> "<p>welcome</p>", text |-> "abcdefghij"]
PgAbout ==
  [current_url |-> "https://ex.com/about", title |-> "About",
   page_source |-> "<p>about us</p>", text |-> ""]

Pages == {PgPolicy, PgVendor, PgHome, PgWww, PgAbout}

\* An anchor of the homepage: link.text and link.get_attribute('href');
\* href "" stands for an anchor without href (None), which the code treats
\* like the empty string.
Anchor(t, h) == [text |-> t, href |-> h]

AnchorPoolA ==
  << Anchor("Privacy", "/about"), Anchor("About", "/privacy"),
     Anchor("Privacy Policy", "/privacy-policy"), Anchor("Home", "/"),
     Anchor("Your privacy", ""), Anchor("Legal", "https://cdn.io/Privacy-Notice"),
     Anchor("PRIVACY CENTRE", "https://ex.com/privacy-centre"),
     Anchor("Data", "/Privacy") >>

AnchorPoolB ==
  << Anchor("Terms", "/terms"), Anchor("Cookies", "/PRIVACY"),
     Anchor("cookies", "/privacy#cookies"), Anchor("Privacy notice", "/legal"),
     Anchor("more", "privacy.html"), Anchor("Privacy-Centre", "/privacy-centre"),
     Anchor("Privacy Statement", ""), Anchor("Imprint", "/imprint") >>

Prefix(pool, n) == SubSeq(pool, 1, IF n < Len(pool) THEN n ELSE Len(pool))

\* The anchor lists driver.find_elements can return on the homepage: none,
\* the first three or the first MaxLinks anchors of a pool.
LinkLists ==
  { Prefix(pool, n) : pool \in {AnchorPoolA, AnchorPoolB}, n \in {0, 3, MaxLinks} }

\* What reading the html element's lang attribute can give: an exception,
\* or the attribute's value ("" also for a missing attribute: `or ''`).
LangReads ==
  {[raises |-> TRUE, value |-> ""]}
    \cup {[raises |-> FALSE, value |-> v] : v \in {"en-US", "EN", "fr", ""}}

\* What langdetect.detect can give: an exception or a language code.
Detections ==
  {[raises |-> TRUE, lang |-> ""]}
    \cup {[raises |-> FALSE, lang |-> l] : l \in {"en", "fr"}}

\* The homepage as page_is_english sees it: the lang read and the detection.
PageLangs == [attr : LangReads, det : Detections]

\* No homepage is loaded (placeholders of the same shape, never read).
NoLang ==
  [attr |-> [raises |-> TRUE, value |-> "-"], det |-> [raises |-> TRUE, lang |-> "-"]]

\* The browser is on no page the session reads the title, source or text of.
NoPage ==
  [current_url |-> "-", title |-> "-", page_source |-> "-", text |-> "-"]

\* scroll_to_bottom is not running.
NoScroll ==
  [at |-> "idle", height |-> 0, grown |-> 0, last_height |-> 0,
   new_height |-> 0, count |-> 0, calls |-> << >>]

\* ------------------------------------------------------------------- state

VARIABLES
  pc,                   \* the position of the pass in the batch loop's body
  domains,              \* the list the batch loop iterates over
  position,             \* the index in domains of the running iteration
  domain,               \* the loop variable `url` of main.py
  url, url_2,           \* WebScraper.url, WebScraper.url_2
  privacy_subdomains,   \* WebScraper.privacy_subdomains
  is_en_flag, is_timeout_flag, is_outdated_flag, needs_review,
  home_outcome,         \* history: how the initial homepage load ended
  lang_checked_at,      \* history: navigations issued before the language
                        \* check ran (-1 while it has not run)
  quits,                \* number of driver.quit() calls
  idx,                  \* index of the running for loop
  links,                \* the anchors find_elements returned
  rank_candidates,      \* rank_1/2/3_candidate_privacy_url
  candidate_privacy_url_sorted,
  text_extracted,       \* the accumulation of extract_policies
  policies,             \* the value extract_policies returned
  csv,                  \* the rows of the output file
  raised,               \* an exception reached the batch loop's except
  navs,                 \* history: every driver.get issued, in order
  get_failed,           \* history: the last driver.get issued raised
  page_lang,            \* what the homepage just loaded gives to the lang
                        \* read and to the detector (until the next get)
  page,                 \* the page a probe or an extraction left the
                        \* browser on (NoPage after any other driver.get)
  scroll,               \* a run of scroll_to_bottom: its locals, the page's
                        \* height and the execute_script calls it made
  returns,              \* history: the values the calls of extract_policies
                        \* on this session returned, in order
  other                 \* a second WebScraper whose steps are not running:
                        \* its attributes, its driver's page and its history

vars ==
  << pc, domain, url, url_2, privacy_subdomains, is_en_flag, is_timeout_flag,
     is_outdated_flag, needs_review, home_outcome, quits, idx, links,
     rank_candidates, candidate_privacy_url_sorted, text_extracted, policies,
     csv, raised, navs, lang_checked_at, domains, position, get_failed,
     page_lang, page, scroll, returns, other >>

batch == << domain, domains, position >>
session ==
  << url, url_2, is_en_flag, is_timeout_flag, is_outdated_flag, home_outcome >>
extraction == << text_extracted, policies, needs_review, quits >>
ranking == << links, rank_candidates, candidate_privacy_url_sorted >>

\* No second WebScraper exists.
NoSession == [pc |-> "none"]

NoBuckets == [rank_1 |-> << >>, rank_2 |-> << >>, rank_3 |-> << >>]

\* One entry of the navigation history.
Nav(phase, target) == [phase |-> phase, url |-> target]

Init ==
  /\ pc = "start"
  /\ domain \in Inputs
  /\ domains = << domain >>
  /\ position = 1
  /\ get_failed = FALSE
  /\ page_lang = NoLang
  /\ page = NoPage
  /\ scroll = NoScroll
  /\ returns = << >>
  /\ other = NoSession
  /\ url = ""
  /\ url_2 = ""
  /\ privacy_subdomains = << >>
  /\ is_en_flag = TRUE
  /\ is_timeout_flag = FALSE
  /\ is_outdated_flag = FALSE
  /\ needs_review = FALSE
  /\ home_outcome = "none"
  /\ quits = 0
  /\ idx = 0
  /\ links = << >>
  /\ rank_candidates = NoBuckets
  /\ candidate_privacy_url_sorted = << >>
  /\ text_extracted = ""
  /\ policies = ""
  /\ csv = << >>
  /\ raised = FALSE
  /\ navs = << >>
  /\ lang_checked_at = -1

\* ------------------------------------------- the web of the running domain

\* Domains whose pages answer every URL with its own fixed content, for
\* extract_policies run on a given list.
ExtractInputs == {"example.com", "https://example.com"}

\* The URLs a candidate list given to extract_policies is made of.
CandidateUrls ==
  { "https://example.com/privacy", "https://example.com/privacy-policy",
    "https://privacy.thirdparty.com/policy", "https://example.org/privacy" }

\* The text BeautifulSoup yields for the page at a candidate URL.
TextAt(target) ==
  CASE target = "https://example.com/privacy" -> "abcdefghij"
    [] target = "https://example.com/privacy-policy" -> "abcdefghiX"
    [] target = "https://privacy.thirdparty.com/policy" -> "abcQRSTUVW"
    [] OTHER -> ""

PageAt(target) ==
  [current_url |-> target, title |-> "Privacy Policy",
   page_source |-> "<p>policy</p>", text |-> TextAt(target)]

\* Domains of a batch: every URL of such a site redirects to its one policy
\* page, and its homepage shows three anchors.
BatchInputs == {"a.org", "http://b.net"}

SitePolicy ==
  [current_url |-> url \o "/privacy", title |-> "Privacy Policy",
   page_source |-> "<p>policy</p>", text |-> "abcdefghij"]

\* The pages driver.get(target) can end on when it does not raise.
Served(target) ==
  IF domain \in Inputs THEN Pages
  ELSE IF domain \in ExtractInputs THEN {PageAt(target)}
  ELSE {SitePolicy}

\* The anchor lists find_elements can return on the reloaded homepage.
AnchorsFound ==
  IF domain \in Inputs THEN LinkLists ELSE {Prefix(AnchorPoolA, 3)}

\* ------------------------------------------------- WebScraper.__init__

\* Mutant: "www." is put in front of whatever was given.
NormalizedUrl2_AlwaysWww(d) == "https://www." \o d

NormalizedUrl(d) == IF HasScheme(d) THEN d ELSE "https://" \o d

NormalizedUrl2(d) == IF HasScheme(d) THEN d ELSE "https://www." \o d

\* scraper = WebScraper(url): the fields are set and Chrome is started.
Construct ==
  /\ pc = "start"
  /\ url' = NormalizedUrl(domain)
  /\ url_2' = NormalizedUrl2(domain)
  /\ privacy_subdomains' = << >>
  /\ is_en_flag' = TRUE
  /\ is_timeout_flag' = FALSE
  /\ is_outdated_flag' = FALSE
  /\ needs_review' = FALSE
  /\ pc' = "home"
  /\ UNCHANGED << get_failed, page_lang, page >>
  /\ UNCHANGED << batch, other, scroll, returns, home_outcome, quits, idx, ranking, text_extracted,
                  policies, csv, raised, navs, lang_checked_at >>

\* webdriver.Chrome(...) raises: the batch loop's except logs and continues.
ConstructFails ==
  /\ pc = "start"
  /\ url' = NormalizedUrl(domain)
  /\ url_2' = NormalizedUrl2(domain)
  /\ raised' = TRUE
  /\ pc' = "done"
  /\ UNCHANGED << get_failed, page_lang, page >>
  /\ UNCHANGED << batch, other, scroll, returns, privacy_subdomains, is_en_flag, is_timeout_flag,
                  is_outdated_flag, needs_review, home_outcome, quits, idx,
                  ranking, text_extracted, policies, csv, navs,
                  lang_checked_at >>

\* ------------------------------------------- find_privacy_url: homepage

\* Mutant: the language check before the direct-path scan is missing.
HomeLoadOk_SkipsLanguage ==
  /\ pc = "home"
  /\ home_outcome' = "ok"
  /\ navs' = Append(navs, Nav("home", url))
  /\ pc' = "direct"
  /\ idx' = 1
  /\ get_failed' = FALSE
  /\ page_lang' \in PageLangs
  /\ page' = NoPage
  /\ UNCHANGED << batch, other, scroll, returns, lang_checked_at, url, url_2, is_en_flag,
                  is_timeout_flag, is_outdated_flag, privacy_subdomains,
                  ranking, extraction, csv, raised >>

\* driver.get(self.url) succeeds.
HomeLoadOk ==
  /\ pc = "home"
  /\ home_outcome' = "ok"
  /\ navs' = Append(navs, Nav("home", url))
  /\ pc' = "lang"
  /\ get_failed' = FALSE
  /\ page_lang' \in PageLangs
  /\ page' = NoPage
  /\ UNCHANGED << batch, other, scroll, returns, lang_checked_at,
                  url, url_2, is_en_flag, is_timeout_flag,
                  is_outdated_flag, privacy_subdomains, idx, ranking,
                  extraction, csv, raised >>

\* Mutant: the generic except clause comes first, so a timeout is handled as
\* any other error.
HomeLoadTimeout_AsError ==
  /\ pc = "home"
  /\ is_outdated_flag' = TRUE
  /\ home_outcome' = "timeout"
  /\ navs' = Append(navs, Nav("home", url))
  /\ pc' = "extract"
  /\ idx' = 1
  /\ get_failed' = TRUE
  /\ UNCHANGED page_lang
  /\ page' = NoPage
  /\ UNCHANGED << batch, other, scroll, returns, lang_checked_at, url, url_2, is_en_flag,
                  is_timeout_flag, privacy_subdomains, ranking, extraction,
                  csv, raised >>

\* driver.get(self.url) raises TimeoutException: return privacy_subdomains.
HomeLoadTimeout ==
  /\ pc = "home"
  /\ is_timeout_flag' = TRUE
  /\ home_outcome' = "timeout"
  /\ navs' = Append(navs, Nav("home", url))
  /\ pc' = "extract"
  /\ idx' = 1
  /\ get_failed' = TRUE
  /\ UNCHANGED page_lang
  /\ page' = NoPage
  /\ UNCHANGED << batch, other, scroll, returns, lang_checked_at,
                  url, url_2, is_en_flag, is_outdated_flag,
                  privacy_subdomains, ranking, extraction, csv, raised >>

\* Mutant: the return after the generic except clause is missing.
HomeLoadError_NoReturn ==
  /\ pc = "home"
  /\ is_outdated_flag' = TRUE
  /\ home_outcome' = "error"
  /\ navs' = Append(navs, Nav("home", url))
  /\ pc' = "lang"
  /\ idx' = 1
  /\ get_failed' = TRUE
  /\ UNCHANGED page_lang
  /\ page' = NoPage
  /\ UNCHANGED << batch, other, scroll, returns, lang_checked_at, url, url_2, is_en_flag,
                  is_timeout_flag, privacy_subdomains, ranking, extraction,
                  csv, raised >>

\* driver.get(self.url) raises anything else: return privacy_subdomains.
HomeLoadError ==
  /\ pc = "home"
  /\ is_outdated_flag' = TRUE
  /\ home_outcome' = "error"
  /\ navs' = Append(navs, Nav("home", url))
  /\ pc' = "extract"
  /\ idx' = 1
  /\ get_failed' = TRUE
  /\ UNCHANGED page_lang
  /\ page' = NoPage
  /\ UNCHANGED << batch, other, scroll, returns, lang_checked_at,
                  url, url_2, is_en_flag, is_timeout_flag,
                  privacy_subdomains, ranking, extraction, csv, raised >>

\* ------------------------------------------------------ page_is_english

\* The value page_is_english returns (and leaves in is_en_flag) for what
\* the lang attribute read and the detector give.
page_is_english(attr, det) ==
  LET after_attr ==
        IF attr.raises THEN TRUE
        ELSE StartsWith(Lower(attr.value), "en")
  IN  IF det.raises THEN after_attr ELSE det.lang = "en"

\* Mutant: the result of page_is_english is ignored.
LanguageCheck_NoReturn ==
  /\ pc = "lang"
  /\ is_en_flag' = page_is_english(page_lang.attr, page_lang.det)
  /\ pc' = "direct"
  /\ idx' = 1
  /\ lang_checked_at' = Len(navs)
  /\ UNCHANGED << get_failed, page_lang, page >>
  /\ UNCHANGED << batch, other, scroll, returns, url, url_2, is_timeout_flag, is_outdated_flag,
                  privacy_subdomains, home_outcome, ranking, extraction, csv,
                  raised, navs >>

\* if not self.page_is_english(): return self.privacy_subdomains
LanguageCheck ==
  /\ pc = "lang"
  /\ is_en_flag' = page_is_english(page_lang.attr, page_lang.det)
  /\ pc' = IF page_is_english(page_lang.attr, page_lang.det)
           THEN "direct" ELSE "extract"
  /\ idx' = 1
  /\ lang_checked_at' = Len(navs)
  /\ UNCHANGED << get_failed, page_lang, page >>
  /\ UNCHANGED << batch, other, scroll, returns, url, url_2, is_timeout_flag, is_outdated_flag,
                  privacy_subdomains, home_outcome, ranking, extraction, csv,
                  raised, navs >>


\* ------------------------------------------- page_is_valid_privacy_page

\* "privacy" in self.driver.title.lower() or in page_source.lower()
MentionsPrivacy(p) ==
  \/ Contains("privacy", Lower(p.title))
  \/ Contains("privacy", Lower(p.page_source))

\* re.IGNORECASE: what each alternative matches in a lower-cased body.
patterns_lower ==
  [n \in 1..Len(page_not_found_patterns) |-> Lower(page_not_found_patterns[n])]

\* re.search(<404 pattern>, body, re.IGNORECASE) on the lower-cased source
LooksLikeErrorPage(p) ==
  LET body == Lower(p.page_source)
  IN  \E n \in 1..Len(patterns_lower) : Contains(patterns_lower[n], body)

page_is_valid_privacy_page(p) ==
  IF ~MentionsPrivacy(p) THEN FALSE
  ELSE IF LooksLikeErrorPage(p) THEN FALSE
  ELSE TRUE

\* ---------------------------------------------------------------- urljoin

\* scheme://netloc of an absolute URL.
Origin(u) ==
  LET from == IF StartsWith(u, "https://") THEN 9 ELSE 8
      slashes == {k \in from..Len(u) : SubSeq(u, k, k) = "/"}
  IN  IF slashes = {} THEN u
      ELSE SubSeq(u, 1, (CHOOSE k \in slashes : \A m \in slashes : k <= m) - 1)

\* urllib.parse.urljoin(base, ref) for a base without path, as self.url is:
\* an empty (or None) ref gives the base, an absolute ref itself, a rooted
\* ref replaces the path, any other ref is resolved against the root.
urljoin(base, ref) ==
  IF ref = "" THEN base
  ELSE IF HasScheme(ref) THEN ref
  ELSE IF StartsWith(ref, "/") THEN Origin(base) \o ref
  ELSE Origin(base) \o "/" \o ref

\* -------------------------------------------------------------- link ranks

\* keyword.lower() for each keyword of self.privacy_name_list
keywords_lower ==
  [n \in 1..Len(privacy_name_list) |-> Lower(privacy_name_list[n])]

\* any(keyword.lower() in s for keyword in self.privacy_name_list)
KeywordIn(s) ==
  \E n \in 1..Len(keywords_lower) : Contains(keywords_lower[n], s)

keyword_in_text(link) == KeywordIn(Lower(link.text))

keyword_in_href(link) ==
  IF link.href # "" THEN KeywordIn(Lower(link.href)) ELSE FALSE

\* Mutant: the text-only and href-only branches are swapped.
RankOf_Swapped(link) ==
  IF keyword_in_text(link) /\ keyword_in_href(link) THEN 1
  ELSE IF keyword_in_href(link) THEN 2
  ELSE IF keyword_in_text(link) THEN 3
  ELSE 0

\* The bucket the if/elif chain puts an anchor in; 0 for none.
RankOf(link) ==
  IF keyword_in_text(link) /\ keyword_in_href(link) THEN 1
  ELSE IF keyword_in_text(link) THEN 2
  ELSE IF keyword_in_href(link) THEN 3
  ELSE 0

\* The loop over links: the three lists after the anchors ls, from acc.
RECURSIVE RankLoop(_, _, _)
RankLoop(base, ls, acc) ==
  IF ls = << >> THEN acc
  ELSE LET link == Head(ls)
           target == urljoin(base, link.href)
           r == RankOf(link)
       IN  RankLoop(base, Tail(ls),
             [rank_1 |-> IF r = 1 THEN Append(acc.rank_1, target) ELSE acc.rank_1,
              rank_2 |-> IF r = 2 THEN Append(acc.rank_2, target) ELSE acc.rank_2,
              rank_3 |-> IF r = 3 THEN Append(acc.rank_3, target) ELSE acc.rank_3])

RankBuckets(base, ls) == RankLoop(base, ls, NoBuckets)

\* Mutant: the three lists are joined in the opposite order.
SortedCandidates_Reversed(base, ls) ==
  LET b == RankBuckets(base, ls) IN b.rank_3 \o b.rank_2 \o b.rank_1

\* rank_1 + rank_2 + rank_3
SortedCandidates(base, ls) ==
  LET b == RankBuckets(base, ls) IN b.rank_1 \o b.rank_2 \o b.rank_3

\* Mutant: the slice is missing, every ranked candidate is fetched.
TopSlice_All(cands) == cands

\* candidate_privacy_url_sorted[:5]
TopSlice(cands) ==
  SubSeq(cands, 1, IF Len(cands) < TopCandidates THEN Len(cands) ELSE TopCandidates)


\* ---------------------------------------- find_privacy_url: direct paths

InList(u, list) == \E n \in 1..Len(list) : list[n] = u

\* Mutant: a direct-path hit is put at the front of the list.
DirectRecord_Prepends(subs, p) ==
  IF /\ ~InList(p.current_url, subs)
     /\ p.current_url # url \o "/"
     /\ p.current_url # url_2 \o "/"
  THEN << p.current_url >> \o subs
  ELSE subs

\* What a valid direct-path page does to privacy_subdomains.
DirectRecord(subs, p) ==
  IF /\ ~InList(p.current_url, subs)
     /\ p.current_url # url \o "/"
     /\ p.current_url # url_2 \o "/"
  THEN Append(subs, p.current_url)
  ELSE subs

\* The position after iteration idx of a for loop over n items.
AfterDirect == IF idx = Len(direct_paths) THEN "reload" ELSE "direct"

\* driver.get(urljoin(self.url, path)) succeeds: the browser is on a page.
DirectPathOk ==
  /\ pc = "direct"
  /\ \E p \in Served(urljoin(url, direct_paths[idx])) : page' = p
  /\ navs' = Append(navs, Nav("direct", urljoin(url, direct_paths[idx])))
  /\ pc' = "validate"
  /\ get_failed' = FALSE
  /\ page_lang' = NoLang
  /\ UNCHANGED << batch, other, scroll, returns, lang_checked_at, session, privacy_subdomains, idx,
                  ranking, extraction, csv, raised >>

\* Mutant: the page is accepted whenever it mentions "privacy".
DirectValidate_NoErrorCheck ==
  /\ pc = "validate"
  /\ pc' = IF MentionsPrivacy(page) THEN "record" ELSE AfterDirect
  /\ idx' = IF MentionsPrivacy(page) THEN idx ELSE idx + 1
  /\ UNCHANGED << get_failed, page_lang, page >>
  /\ UNCHANGED << batch, other, scroll, returns, lang_checked_at, session, privacy_subdomains, ranking,
                  extraction, csv, raised, navs >>

\* if self.page_is_valid_privacy_page(): the body of the if is entered or
\* the loop goes to the next path.
DirectValidate ==
  /\ pc = "validate"
  /\ pc' = IF page_is_valid_privacy_page(page) THEN "record" ELSE AfterDirect
  /\ idx' = IF page_is_valid_privacy_page(page) THEN idx ELSE idx + 1
  /\ UNCHANGED << get_failed, page_lang, page >>
  /\ UNCHANGED << batch, other, scroll, returns, lang_checked_at, session, privacy_subdomains, ranking,
                  extraction, csv, raised, navs >>

\* Mutant: the loop over the direct paths is left after a hit.
DirectAppend_StopsAtHit ==
  /\ pc = "record"
  /\ privacy_subdomains' = DirectRecord(privacy_subdomains, page)
  /\ pc' = "reload"
  /\ idx' = idx + 1
  /\ UNCHANGED << get_failed, page_lang, page >>
  /\ UNCHANGED << batch, other, scroll, returns, lang_checked_at, session, ranking, extraction, csv,
                  raised, navs >>

\* The body of the if: driver.current_url is appended unless it is already
\* in the list or is the homepage.
DirectAppend ==
  /\ pc = "record"
  /\ privacy_subdomains' = DirectRecord(privacy_subdomains, page)
  /\ pc' = AfterDirect
  /\ idx' = idx + 1
  /\ UNCHANGED << get_failed, page_lang, page >>
  /\ UNCHANGED << batch, other, scroll, returns, lang_checked_at, session, ranking, extraction, csv,
                  raised, navs >>

\* Mutant: a failed probe returns the list, as a failed homepage load does.
DirectPathFails_Returns ==
  /\ pc = "direct"
  /\ navs' = Append(navs, Nav("direct", urljoin(url, direct_paths[idx])))
  /\ pc' = "extract"
  /\ idx' = 1
  /\ get_failed' = TRUE
  /\ page_lang' = NoLang
  /\ page' = NoPage
  /\ UNCHANGED << batch, other, scroll, returns, lang_checked_at, session, privacy_subdomains, ranking,
                  extraction, csv, raised >>

\* driver.get raises (timeout or other): log and continue with the next path.
DirectPathFails ==
  /\ pc = "direct"
  /\ navs' = Append(navs, Nav("direct", urljoin(url, direct_paths[idx])))
  /\ pc' = AfterDirect
  /\ idx' = idx + 1
  /\ get_failed' = TRUE
  /\ page_lang' = NoLang
  /\ page' = NoPage
  /\ UNCHANGED << batch, other, scroll, returns, lang_checked_at,
                  session, privacy_subdomains, ranking,
                  extraction, csv, raised >>

\* ------------------------------------------- find_privacy_url: link scan

\* driver.get(self.url) and scroll_to_bottom succeed; the anchors are read
\* and ranked.
ReloadOk ==
  /\ pc = "reload"
  /\ \E ls \in AnchorsFound :
       /\ links' = ls
       /\ rank_candidates' = RankBuckets(url, ls)
       /\ candidate_privacy_url_sorted' = SortedCandidates(url, ls)
       /\ pc' = IF SortedCandidates(url, ls) = << >> THEN "extract" ELSE "links"
  /\ navs' = Append(navs, Nav("reload", url))
  /\ idx' = 1
  /\ get_failed' = FALSE
  /\ page_lang' = NoLang
  /\ page' = NoPage
  /\ UNCHANGED << batch, other, scroll, returns, lang_checked_at,
                  session, privacy_subdomains, extraction, csv,
                  raised >>

\* Mutant: a failed reload is reported like a failed homepage load.
ReloadFails_SetsTimeout ==
  /\ pc = "reload"
  /\ navs' = Append(navs, Nav("reload", url))
  /\ is_timeout_flag' = TRUE
  /\ pc' = "extract"
  /\ idx' = 1
  /\ get_failed' = TRUE
  /\ page_lang' = NoLang
  /\ page' = NoPage
  /\ UNCHANGED << batch, other, scroll, returns, lang_checked_at,
                  url, url_2, is_en_flag, is_outdated_flag, home_outcome,
                  privacy_subdomains, ranking, extraction, csv, raised >>

\* The reload (or the scrolling) raises: return privacy_subdomains.
ReloadFails ==
  /\ pc = "reload"
  /\ navs' = Append(navs, Nav("reload", url))
  /\ pc' = "extract"
  /\ idx' = 1
  /\ get_failed' = TRUE
  /\ page_lang' = NoLang
  /\ page' = NoPage
  /\ UNCHANGED << batch, other, scroll, returns, lang_checked_at,
                  session, privacy_subdomains, ranking,
                  extraction, csv, raised >>

\* Mutant: the membership test before the append is missing.
LinkRecord_NoDedup(subs, p) ==
  IF MentionsPrivacy(p) THEN Append(subs, p.current_url) ELSE subs

\* What a fetched link candidate's page does to privacy_subdomains.
LinkRecord(subs, p) ==
  IF MentionsPrivacy(p) /\ ~InList(p.current_url, subs)
  THEN Append(subs, p.current_url)
  ELSE subs

AfterLink ==
  IF idx = Len(TopSlice(candidate_privacy_url_sorted)) THEN "extract" ELSE "links"

NextLinkIdx ==
  IF idx = Len(TopSlice(candidate_privacy_url_sorted)) THEN 1 ELSE idx + 1

\* Mutant: the link scan validates the page as the direct-path scan does.
LinkOk_Validates ==
  /\ pc = "links"
  /\ \E p \in Served(TopSlice(candidate_privacy_url_sorted)[idx]) :
       /\ page' = p
       /\ privacy_subdomains' =
            IF page_is_valid_privacy_page(p)
            THEN LinkRecord(privacy_subdomains, p)
            ELSE privacy_subdomains
  /\ navs' = Append(navs, Nav("link", TopSlice(candidate_privacy_url_sorted)[idx]))
  /\ pc' = AfterLink
  /\ idx' = NextLinkIdx
  /\ get_failed' = FALSE
  /\ page_lang' = NoLang
  /\ UNCHANGED << batch, other, scroll, returns, lang_checked_at,
                  session, ranking, extraction, csv, raised >>

\* driver.get(candidate_url) succeeds; the page is rechecked for "privacy".
LinkOk ==
  /\ pc = "links"
  /\ \E p \in Served(TopSlice(candidate_privacy_url_sorted)[idx]) :
       /\ page' = p
       /\ privacy_subdomains' = LinkRecord(privacy_subdomains, p)
  /\ navs' = Append(navs, Nav("link", TopSlice(candidate_privacy_url_sorted)[idx]))
  /\ pc' = AfterLink
  /\ idx' = NextLinkIdx
  /\ get_failed' = FALSE
  /\ page_lang' = NoLang
  /\ UNCHANGED << batch, other, scroll, returns, lang_checked_at,
                  session, ranking, extraction, csv, raised >>

\* Mutant: a failed link candidate marks the domain as outdated.
LinkFails_SetsOutdated ==
  /\ pc = "links"
  /\ navs' = Append(navs, Nav("link", TopSlice(candidate_privacy_url_sorted)[idx]))
  /\ is_outdated_flag' = TRUE
  /\ pc' = AfterLink
  /\ idx' = NextLinkIdx
  /\ get_failed' = TRUE
  /\ page_lang' = NoLang
  /\ page' = NoPage
  /\ UNCHANGED << batch, other, scroll, returns, lang_checked_at,
                  url, url_2, is_en_flag, is_timeout_flag, home_outcome,
                  privacy_subdomains, ranking, extraction, csv, raised >>

\* driver.get(candidate_url) raises: log and continue.
LinkFails ==
  /\ pc = "links"
  /\ navs' = Append(navs, Nav("link", TopSlice(candidate_privacy_url_sorted)[idx]))
  /\ pc' = AfterLink
  /\ idx' = NextLinkIdx
  /\ get_failed' = TRUE
  /\ page_lang' = NoLang
  /\ page' = NoPage
  /\ UNCHANGED << batch, other, scroll, returns, lang_checked_at,
                  session, privacy_subdomains, ranking,
                  extraction, csv, raised >>


\* ------------------------------------------------------------- similarity

\* SequenceMatcher.find_longest_match on whole strings (no junk: autojunk
\* only acts on strings of 200 characters or more): the longest common
\* block, the earliest in a, and of those the earliest in b.
LongestMatch(a, b) ==
  LET short == IF Len(a) < Len(b) THEN Len(a) ELSE Len(b)
      Common(k) == {i \in 1..(Len(a) - k + 1) : Contains(SubSeq(a, i, i + k - 1), b)}
      sizes == {k \in 1..short : Common(k) # {}}
  IN  IF sizes = {} THEN [i |-> 1, j |-> 1, k |-> 0]
      ELSE LET k == CHOOSE x \in sizes : \A y \in sizes : y <= x
               i == CHOOSE x \in Common(k) : \A y \in Common(k) : x <= y
               js == {j \in 1..(Len(b) - k + 1) :
                        SubSeq(b, j, j + k - 1) = SubSeq(a, i, i + k - 1)}
               j == CHOOSE x \in js : \A y \in js : x <= y
           IN  [i |-> i, j |-> j, k |-> k]

\* The total size of SequenceMatcher.get_matching_blocks: the longest
\* block, then the same to its left and to its right.
RECURSIVE MatchSize(_, _)
MatchSize(a, b) ==
  IF Len(a) = 0 \/ Len(b) = 0 THEN 0
  ELSE LET m == LongestMatch(a, b)
       IN  IF m.k = 0 THEN 0
           ELSE m.k
                + MatchSize(SubSeq(a, 1, m.i - 1), SubSeq(b, 1, m.j - 1))
                + MatchSize(SubSeq(a, m.i + m.k, Len(a)),
                            SubSeq(b, m.j + m.k, Len(b)))

\* The threshold 0.7 of extract_policies, as the fraction 7/10.
ThresholdNum == 7
ThresholdDen == 10

\* Mutant: the threshold is 0.2.
SimilarityAtMostThreshold_Fifth(a, b) ==
  IF Len(a) + Len(b) = 0 THEN FALSE
  ELSE 2 * MatchSize(a, b) * 10 <= 2 * (Len(a) + Len(b))

\* self.similarity(a, b) <= 0.7, where ratio() is 2.0 * matches / length
\* (1.0 for two empty strings), compared without rounding.
SimilarityAtMostThreshold(a, b) ==
  IF Len(a) + Len(b) = 0 THEN ThresholdDen <= ThresholdNum
  ELSE 2 * MatchSize(a, b) * ThresholdDen <= ThresholdNum * (Len(a) + Len(b))

\* Mutant: the similarity test is missing.
Accumulate_NoGate(acc, cand) ==
  IF acc # ""
  THEN IF cand # "" THEN acc \o cand ELSE acc
  ELSE cand

\* The accumulation after a page whose text is cand.
Accumulate(acc, cand) ==
  IF acc # ""
  THEN IF cand # "" /\ SimilarityAtMostThreshold(acc, cand)
       THEN acc \o cand
       ELSE acc
  ELSE cand

\* ----------------------------------------------------- extract_policies

\* tldextract.extract(u).domain for a host under a one-label public suffix:
\* the label before the suffix (the whole host when it has no dot).
TldDomain(u) ==
  LET o == Origin(u)
      from == IF StartsWith(u, "https://") THEN 9 ELSE 8
      host == SubSeq(o, from, Len(o))
      dots == {k \in 1..Len(host) : SubSeq(host, k, k) = "."}
  IN  IF dots = {} THEN host
      ELSE LET last == CHOOSE k \in dots : \A m \in dots : m <= k
               before == {k \in dots : k < last}
               first == IF before = {} THEN 1
                        ELSE (CHOOSE k \in before : \A m \in before : m <= k) + 1
           IN  SubSeq(host, first, last - 1)

\* if tldextract.extract(self.url).domain not in privacy_url
OffDomain(privacy_url) == ~Contains(TldDomain(url), privacy_url)

Sentinel == "No privacy url found"

\* Mutant: the empty list returns without driver.quit().
ExtractNone_NoQuit ==
  /\ pc = "extract"
  /\ privacy_subdomains = << >>
  /\ policies' = Sentinel
  /\ pc' = "row"
  /\ UNCHANGED << batch, other, scroll, returns, lang_checked_at, session, privacy_subdomains, idx,
                  ranking, text_extracted, needs_review, quits, csv, raised,
                  navs, get_failed, page_lang, page >>

\* extract_policies([]): quit the driver and return the sentinel.
ExtractNone ==
  /\ pc = "extract"
  /\ privacy_subdomains = << >>
  /\ quits' = quits + 1
  /\ policies' = Sentinel
  /\ returns' = Append(returns, Sentinel)
  /\ pc' = "row"
  /\ UNCHANGED << get_failed, page_lang, page >>
  /\ UNCHANGED << batch, other, scroll, lang_checked_at,
                  session, privacy_subdomains, idx, ranking,
                  text_extracted, needs_review, csv, raised, navs >>

\* Mutant: needs_review is assigned the verdict on the URL at hand.
ExtractPage_ReviewLast ==
  /\ pc = "extract"
  /\ privacy_subdomains # << >>
  /\ needs_review' = OffDomain(privacy_subdomains[idx])
  /\ \E p \in Served(privacy_subdomains[idx]) :
       /\ page' = p
       /\ text_extracted' = Accumulate(text_extracted, p.text)
       /\ policies' = IF idx = Len(privacy_subdomains)
                      THEN Accumulate(text_extracted, p.text)
                      ELSE policies
       /\ returns' = IF idx = Len(privacy_subdomains)
                     THEN Append(returns, Accumulate(text_extracted, p.text))
                     ELSE returns
  /\ navs' = Append(navs, Nav("extract", privacy_subdomains[idx]))
  /\ quits' = IF idx = Len(privacy_subdomains) THEN quits + 1 ELSE quits
  /\ pc' = IF idx = Len(privacy_subdomains) THEN "row" ELSE "extract"
  /\ idx' = idx + 1
  /\ get_failed' = FALSE
  /\ page_lang' = NoLang
  /\ UNCHANGED << batch, other, scroll, lang_checked_at,
                  session, privacy_subdomains, ranking, csv, raised >>

\* Mutant: the text of a later page is put in front of the accumulation.
ExtractPage_Prepends ==
  /\ pc = "extract"
  /\ privacy_subdomains # << >>
  /\ needs_review' = (needs_review \/ OffDomain(privacy_subdomains[idx]))
  /\ \E p \in Served(privacy_subdomains[idx]) :
       LET out == IF Accumulate(text_extracted, p.text) = text_extracted
                  THEN text_extracted
                  ELSE p.text \o text_extracted
       IN  /\ page' = p
           /\ text_extracted' = out
           /\ policies' = IF idx = Len(privacy_subdomains) THEN out ELSE policies
           /\ returns' = IF idx = Len(privacy_subdomains)
                         THEN Append(returns, out)
                         ELSE returns
  /\ navs' = Append(navs, Nav("extract", privacy_subdomains[idx]))
  /\ quits' = IF idx = Len(privacy_subdomains) THEN quits + 1 ELSE quits
  /\ pc' = IF idx = Len(privacy_subdomains) THEN "row" ELSE "extract"
  /\ idx' = idx + 1
  /\ get_failed' = FALSE
  /\ page_lang' = NoLang
  /\ UNCHANGED << batch, other, scroll, lang_checked_at,
                  session, privacy_subdomains, ranking, csv, raised >>

\* One iteration of the loop over privacy_urls_list whose driver.get and
\* scrolling succeed; after the last one the driver is quit and the
\* accumulation returned.
ExtractPage ==
  /\ pc = "extract"
  /\ privacy_subdomains # << >>
  /\ needs_review' = (needs_review \/ OffDomain(privacy_subdomains[idx]))
  /\ \E p \in Served(privacy_subdomains[idx]) :
       /\ page' = p
       /\ text_extracted' = Accumulate(text_extracted, p.text)
       /\ policies' = IF idx = Len(privacy_subdomains)
                      THEN Accumulate(text_extracted, p.text)
                      ELSE policies
       /\ returns' = IF idx = Len(privacy_subdomains)
                     THEN Append(returns, Accumulate(text_extracted, p.text))
                     ELSE returns
  /\ navs' = Append(navs, Nav("extract", privacy_subdomains[idx]))
  /\ quits' = IF idx = Len(privacy_subdomains) THEN quits + 1 ELSE quits
  /\ pc' = IF idx = Len(privacy_subdomains) THEN "row" ELSE "extract"
  /\ idx' = idx + 1
  /\ get_failed' = FALSE
  /\ page_lang' = NoLang
  /\ UNCHANGED << batch, other, scroll, lang_checked_at,
                  session, privacy_subdomains, ranking, csv, raised >>

\* Mutant: the batch loop has no except clause, the exception ends the run.
ExtractRaises_Aborts ==
  /\ pc = "extract"
  /\ privacy_subdomains # << >>
  /\ needs_review' = (needs_review \/ OffDomain(privacy_subdomains[idx]))
  /\ navs' = Append(navs, Nav("extract", privacy_subdomains[idx]))
  /\ raised' = TRUE
  /\ pc' = "aborted"
  /\ get_failed' = TRUE
  /\ page_lang' = NoLang
  /\ page' = NoPage
  /\ UNCHANGED << batch, other, scroll, returns, lang_checked_at, session, privacy_subdomains, idx,
                  ranking, text_extracted, policies, quits, csv >>

\* Mutant: the domain of a candidate is looked at after its page loaded.
ExtractRaises_ChecksAfter ==
  /\ pc = "extract"
  /\ privacy_subdomains # << >>
  /\ navs' = Append(navs, Nav("extract", privacy_subdomains[idx]))
  /\ raised' = TRUE
  /\ pc' = "done"
  /\ get_failed' = TRUE
  /\ page_lang' = NoLang
  /\ page' = NoPage
  /\ UNCHANGED << batch, other, scroll, returns, lang_checked_at,
                  session, privacy_subdomains, idx, ranking,
                  text_extracted, policies, quits, csv, needs_review >>

\* driver.get (or the scrolling) raises inside extract_policies: nothing
\* catches it before the batch loop's except.
ExtractRaises ==
  /\ pc = "extract"
  /\ privacy_subdomains # << >>
  /\ needs_review' = (needs_review \/ OffDomain(privacy_subdomains[idx]))
  /\ navs' = Append(navs, Nav("extract", privacy_subdomains[idx]))
  /\ raised' = TRUE
  /\ pc' = "done"
  /\ get_failed' = TRUE
  /\ page_lang' = NoLang
  /\ page' = NoPage
  /\ UNCHANGED << batch, other, scroll, returns, lang_checked_at,
                  session, privacy_subdomains, idx, ranking,
                  text_extracted, policies, quits, csv >>


\* ----------------------------------------------------------- save_to_csv

\* Cells of a csv row: a Python str, list or bool.
PyStr(v) == [str |-> v]
PyList(v) == [list |-> v]
PyBool(v) == [bool |-> v]

IsSpace(c) == c \in {" ", "\n", "\t", "\r"}

\* str.strip()
RECURSIVE Strip(_)
Strip(t) ==
  IF Len(t) = 0 THEN t
  ELSE IF IsSpace(SubSeq(t, 1, 1)) THEN Strip(SubSeq(t, 2, Len(t)))
  ELSE IF IsSpace(SubSeq(t, Len(t), Len(t))) THEN Strip(SubSeq(t, 1, Len(t) - 1))
  ELSE t

HeaderRow ==
  << PyStr("Input Domain"), PyStr("Privacy Policy URL"), PyStr("Policy Text"),
     PyStr("Needs Review") >>

\* Mutant: the list is written as it is, the empty one too.
UrlCell_AsIs(privacy_url) == PyList(privacy_url)

\* privacy_url or 'Not Found'
UrlCell(privacy_url) ==
  IF privacy_url = << >> THEN PyStr("Not Found") ELSE PyList(privacy_url)

\* Mutant: the file is opened with mode 'w'.
save_to_csv_Overwrites(file, d, privacy_url, policy_text, review) ==
  (IF file = << >> THEN << HeaderRow >> ELSE << >>)
    \o << << PyStr(d), UrlCell(privacy_url), PyStr(Strip(policy_text)),
             PyBool(review) >> >>

\* The file after save_to_csv(d, privacy_url, policy_text, review); the
\* file exists once it holds a row.
save_to_csv(file, d, privacy_url, policy_text, review) ==
  (IF file = << >> THEN << HeaderRow >> ELSE file)
    \o << << PyStr(d), UrlCell(privacy_url), PyStr(Strip(policy_text)),
             PyBool(review) >> >>

\* Mutant: the flags are not looked at.
OutputRow_NoFlags ==
  save_to_csv(csv, domain, privacy_subdomains, policies, needs_review)

\* The if/elif chain of the batch loop after extract_policies returned.
OutputRow ==
  IF is_timeout_flag
  THEN save_to_csv(csv, domain, << "DOMAIN TIMED OUT" >>, Sentinel, FALSE)
  ELSE IF is_outdated_flag
  THEN save_to_csv(csv, domain, << "DOMAIN OUTDATED" >>, Sentinel, FALSE)
  ELSE IF ~is_en_flag
  THEN save_to_csv(csv, domain, << "DOMAIN NOT IN ENGLISH" >>, Sentinel, FALSE)
  ELSE save_to_csv(csv, domain, privacy_subdomains, policies, needs_review)

WriteRow ==
  /\ pc = "row"
  /\ csv' = OutputRow
  /\ pc' = "done"
  /\ UNCHANGED << get_failed, page_lang, page >>
  /\ UNCHANGED << batch, other, scroll, returns, lang_checked_at,
                  session, privacy_subdomains, idx, ranking,
                  extraction, raised, navs >>

\* ------------------------------------------------------------ the pass

Next ==
  \/ Construct
  \/ ConstructFails
  \/ HomeLoadTimeout
  \/ HomeLoadError
  \/ HomeLoadOk
  \/ LanguageCheck
  \/ DirectPathFails
  \/ DirectPathOk
  \/ DirectValidate
  \/ DirectAppend
  \/ ReloadFails
  \/ ReloadOk
  \/ LinkFails
  \/ LinkOk
  \/ ExtractNone
  \/ ExtractRaises
  \/ ExtractPage
  \/ WriteRow

Spec == Init /\ [][Next]_vars


\* ------------------------------------------ the ranking on its own

\* The longest anchor list the ranking is run on by itself.
MaxRankLinks == 4

RankAnchors ==
  { Anchor("Privacy", "/about"), Anchor("About", "/privacy"),
    Anchor("Privacy Policy", "/privacy-policy"), Anchor("Home", "/"),
    Anchor("Your PRIVACY", ""),
    Anchor("Legal", "https://cdn.io/Privacy-Notice") }

AnchorSeqs == UNION { [1..n -> RankAnchors] : n \in 0..MaxRankLinks }

\* A session on the reloaded homepage, any anchors found on it.
InitRank ==
  /\ pc = "rank"
  /\ domain \in Inputs
  /\ domains = << domain >>
  /\ position = 1
  /\ get_failed = FALSE
  /\ page_lang = NoLang
  /\ page = NoPage
  /\ scroll = NoScroll
  /\ returns = << >>
  /\ other = NoSession
  /\ url = NormalizedUrl(domain)
  /\ url_2 = NormalizedUrl2(domain)
  /\ links \in AnchorSeqs
  /\ privacy_subdomains = << >>
  /\ is_en_flag = TRUE
  /\ is_timeout_flag = FALSE
  /\ is_outdated_flag = FALSE
  /\ needs_review = FALSE
  /\ home_outcome = "ok"
  /\ quits = 0
  /\ idx = 1
  /\ rank_candidates = NoBuckets
  /\ candidate_privacy_url_sorted = << >>
  /\ text_extracted = ""
  /\ policies = ""
  /\ csv = << >>
  /\ raised = FALSE
  /\ navs = << >>
  /\ lang_checked_at = -1

\* The loop over links and the join of the three lists.
RankStep ==
  /\ pc = "rank"
  /\ rank_candidates' = RankBuckets(url, links)
  /\ candidate_privacy_url_sorted' = SortedCandidates(url, links)
  /\ pc' = "ranked"
  /\ UNCHANGED << get_failed, page_lang, page >>
  /\ UNCHANGED << batch, other, scroll, returns, lang_checked_at, session, privacy_subdomains, idx,
                  links, extraction, csv, raised, navs >>

SpecRank == InitRank /\ [][RankStep]_vars

\* --------------------------------------- extract_policies on its own

\* The longest candidate list extract_policies is run on by itself.
MaxUrls == 2

\* The candidate lists: no URL twice, as find_privacy_url returns them.
UrlLists ==
  { l \in UNION { [1..n -> CandidateUrls] : n \in 0..MaxUrls } :
      \A m, n \in 1..Len(l) : l[m] = l[n] => m = n }

\* A constructed session whose extract_policies is called with a list.
InitExtract ==
  /\ pc = "extract"
  /\ domain \in ExtractInputs
  /\ domains = << domain >>
  /\ position = 1
  /\ url = NormalizedUrl(domain)
  /\ url_2 = NormalizedUrl2(domain)
  /\ privacy_subdomains \in UrlLists
  /\ is_en_flag = TRUE
  /\ is_timeout_flag = FALSE
  /\ is_outdated_flag = FALSE
  /\ needs_review = FALSE
  /\ home_outcome = "none"
  /\ quits = 0
  /\ idx = 1
  /\ links = << >>
  /\ rank_candidates = NoBuckets
  /\ candidate_privacy_url_sorted = << >>
  /\ text_extracted = ""
  /\ policies = ""
  /\ csv = << >>
  /\ raised = FALSE
  /\ navs = << >>
  /\ lang_checked_at = -1
  /\ get_failed = FALSE
  /\ page_lang = NoLang
  /\ page = NoPage
  /\ scroll = NoScroll
  /\ returns = << >>
  /\ other = NoSession

NextExtract ==
  \/ ExtractNone
  \/ ExtractPage
  \/ ExtractRaises

SpecExtract == InitExtract /\ [][NextExtract]_vars

\* ------------------------------- extract_policies called more than once

\* The number of calls of extract_policies made on one session.
MaxRuns == 2

\* Mutant: the accumulation is an attribute of the session that a later
\* call finds as the earlier one left it.
ExtractAgain_KeepsText ==
  /\ pc = "row"
  /\ Len(returns) < MaxRuns
  /\ idx' = 1
  /\ pc' = "extract"
  /\ UNCHANGED << get_failed, page_lang, page, text_extracted >>
  /\ UNCHANGED << batch, other, scroll, returns, lang_checked_at,
                  session, privacy_subdomains, ranking,
                  policies, needs_review, quits, csv, raised, navs >>

\* extract_policies is called again with the list it was given before: the
\* local text_extracted starts as '' and the for loop at the first URL;
\* the attributes of the session stay as the earlier call left them.
ExtractAgain ==
  /\ pc = "row"
  /\ Len(returns) < MaxRuns
  /\ text_extracted' = ""
  /\ idx' = 1
  /\ pc' = "extract"
  /\ UNCHANGED << get_failed, page_lang, page >>
  /\ UNCHANGED << batch, other, scroll, returns, lang_checked_at,
                  session, privacy_subdomains, ranking,
                  policies, needs_review, quits, csv, raised, navs >>

NextRerun ==
  \/ ExtractAgain
  \/ NextExtract

SpecRerun == InitExtract /\ [][NextRerun]_vars

\* ------------------------------------------------------- the batch loop

\* The longest list of domains the batch loop is run on.
MaxDomains == 2

Batches == UNION { [1..n -> BatchInputs] : n \in 1..MaxDomains }

\* The loop entered with its first domain.
InitBatch ==
  /\ pc = "start"
  /\ domains \in Batches
  /\ position = 1
  /\ domain = domains[1]
  /\ url = ""
  /\ url_2 = ""
  /\ privacy_subdomains = << >>
  /\ is_en_flag = TRUE
  /\ is_timeout_flag = FALSE
  /\ is_outdated_flag = FALSE
  /\ needs_review = FALSE
  /\ home_outcome = "none"
  /\ quits = 0
  /\ idx = 0
  /\ links = << >>
  /\ rank_candidates = NoBuckets
  /\ candidate_privacy_url_sorted = << >>
  /\ text_extracted = ""
  /\ policies = ""
  /\ csv = << >>
  /\ raised = FALSE
  /\ navs = << >>
  /\ lang_checked_at = -1
  /\ get_failed = FALSE
  /\ page_lang = NoLang
  /\ page = NoPage
  /\ scroll = NoScroll
  /\ returns = << >>
  /\ other = NoSession

\* for url in domains: the body has ended (after save_to_csv, or in the
\* except clause by `continue`) and the loop takes the next domain.  The
\* scraper and the locals of the pass that ended are not read again; the
\* histories start anew with the pass.
NextDomain ==
  /\ pc = "done"
  /\ position < Len(domains)
  /\ position' = position + 1
  /\ domain' = domains[position + 1]
  /\ pc' = "start"
  /\ url' = ""
  /\ url_2' = ""
  /\ privacy_subdomains' = << >>
  /\ is_en_flag' = TRUE
  /\ is_timeout_flag' = FALSE
  /\ is_outdated_flag' = FALSE
  /\ needs_review' = FALSE
  /\ home_outcome' = "none"
  /\ quits' = 0
  /\ idx' = 0
  /\ links' = << >>
  /\ rank_candidates' = NoBuckets
  /\ candidate_privacy_url_sorted' = << >>
  /\ text_extracted' = ""
  /\ policies' = ""
  /\ navs' = << >>
  /\ lang_checked_at' = -1
  /\ get_failed' = FALSE
  /\ page_lang' = NoLang
  /\ page' = NoPage
  /\ returns' = << >>
  /\ UNCHANGED << domains, csv, raised, scroll, other >>

NextBatch ==
  \/ NextDomain
  \/ Next

SpecBatch == InitBatch /\ [][NextBatch]_vars

\* The interpreter runs the loop to its end: a step that can be taken is
\* taken.
FairBatch == SpecBatch /\ WF_vars(NextBatch)

\* ------------------------------------------ two WebScraper objects at once

\* The attributes of a WebScraper just before __init__ runs for domain d.
Unbuilt(d) ==
  [pc |-> "start", domain |-> d, domains |-> << d >>, url |-> "", url_2 |-> "",
   privacy_subdomains |-> << >>, is_en_flag |-> TRUE,
   is_timeout_flag |-> FALSE, is_outdated_flag |-> FALSE,
   needs_review |-> FALSE, home_outcome |-> "none", lang_checked_at |-> -1,
   quits |-> 0, idx |-> 0, links |-> << >>, rank_candidates |-> NoBuckets,
   candidate_privacy_url_sorted |-> << >>, text_extracted |-> "",
   policies |-> "", raised |-> FALSE, navs |-> << >>, get_failed |-> FALSE,
   page_lang |-> NoLang, page |-> NoPage, returns |-> << >>]

\* What belongs to the running WebScraper: the instance attributes set in
\* __init__, its own driver (page, page_lang, quits), its locals and history.
Running ==
  [pc |-> pc, domain |-> domain, domains |-> domains, url |-> url,
   url_2 |-> url_2, privacy_subdomains |-> privacy_subdomains,
   is_en_flag |-> is_en_flag, is_timeout_flag |-> is_timeout_flag,
   is_outdated_flag |-> is_outdated_flag, needs_review |-> needs_review,
   home_outcome |-> home_outcome, lang_checked_at |-> lang_checked_at,
   quits |-> quits, idx |-> idx, links |-> links,
   rank_candidates |-> rank_candidates,
   candidate_privacy_url_sorted |-> candidate_privacy_url_sorted,
   text_extracted |-> text_extracted, policies |-> policies,
   raised |-> raised, navs |-> navs, get_failed |-> get_failed,
   page_lang |-> page_lang, page |-> page, returns |-> returns]

\* Two scrapers for the two domains of BatchInputs, none constructed yet.
InitPair ==
  /\ pc = "start"
  /\ domain = "a.org"
  /\ domains = << domain >>
  /\ position = 1
  /\ url = ""
  /\ url_2 = ""
  /\ privacy_subdomains = << >>
  /\ is_en_flag = TRUE
  /\ is_timeout_flag = FALSE
  /\ is_outdated_flag = FALSE
  /\ needs_review = FALSE
  /\ home_outcome = "none"
  /\ lang_checked_at = -1
  /\ quits = 0
  /\ idx = 0
  /\ links = << >>
  /\ rank_candidates = NoBuckets
  /\ candidate_privacy_url_sorted = << >>
  /\ text_extracted = ""
  /\ policies = ""
  /\ csv = << >>
  /\ raised = FALSE
  /\ navs = << >>
  /\ get_failed = FALSE
  /\ page_lang = NoLang
  /\ page = NoPage
  /\ scroll = NoScroll
  /\ returns = << >>
  /\ other = Unbuilt("http://b.net")

\* Mutant: privacy_subdomains is one list of the class, as direct_paths is,
\* and both objects append to it.
Switch_SharedList ==
  /\ pc' = other.pc
  /\ domain' = other.domain
  /\ domains' = other.domains
  /\ url' = other.url
  /\ url_2' = other.url_2
  /\ privacy_subdomains' = privacy_subdomains
  /\ is_en_flag' = other.is_en_flag
  /\ is_timeout_flag' = other.is_timeout_flag
  /\ is_outdated_flag' = other.is_outdated_flag
  /\ needs_review' = other.needs_review
  /\ home_outcome' = other.home_outcome
  /\ lang_checked_at' = other.lang_checked_at
  /\ quits' = other.quits
  /\ idx' = other.idx
  /\ links' = other.links
  /\ rank_candidates' = other.rank_candidates
  /\ candidate_privacy_url_sorted' = other.candidate_privacy_url_sorted
  /\ text_extracted' = other.text_extracted
  /\ policies' = other.policies
  /\ raised' = other.raised
  /\ navs' = other.navs
  /\ get_failed' = other.get_failed
  /\ page_lang' = other.page_lang
  /\ page' = other.page
  /\ returns' = other.returns
  /\ other' = Running
  /\ UNCHANGED << position, csv, scroll >>

\* The scheduler of an interleaving: the next step is the other scraper's.
\* Every self.* attribute and the driver belong to one object; the class
\* attributes direct_paths and privacy_name_list are never written.
Switch ==
  /\ pc' = other.pc
  /\ domain' = other.domain
  /\ domains' = other.domains
  /\ url' = other.url
  /\ url_2' = other.url_2
  /\ privacy_subdomains' = other.privacy_subdomains
  /\ is_en_flag' = other.is_en_flag
  /\ is_timeout_flag' = other.is_timeout_flag
  /\ is_outdated_flag' = other.is_outdated_flag
  /\ needs_review' = other.needs_review
  /\ home_outcome' = other.home_outcome
  /\ lang_checked_at' = other.lang_checked_at
  /\ quits' = other.quits
  /\ idx' = other.idx
  /\ links' = other.links
  /\ rank_candidates' = other.rank_candidates
  /\ candidate_privacy_url_sorted' = other.candidate_privacy_url_sorted
  /\ text_extracted' = other.text_extracted
  /\ policies' = other.policies
  /\ raised' = other.raised
  /\ navs' = other.navs
  /\ get_failed' = other.get_failed
  /\ page_lang' = other.page_lang
  /\ page' = other.page
  /\ returns' = other.returns
  /\ other' = Running
  /\ UNCHANGED << position, csv, scroll >>

NextPair ==
  \/ Switch
  \/ Next

SpecPair == InitPair /\ [][NextPair]_vars

\* ------------------------------------------- scroll_to_bottom on its own

\* The most often a page grows when it is scrolled to its end.
MaxGrowth == 12

\* if count > 10: break
ScrollLimit == 10

\* document.body.scrollHeight when scroll_to_bottom is called.
InitialHeights == {0, 1, 2}

\* Everything but the scroller.
pass ==
  << pc, domain, url, url_2, privacy_subdomains, is_en_flag, is_timeout_flag,
     is_outdated_flag, needs_review, home_outcome, quits, idx, links,
     rank_candidates, candidate_privacy_url_sorted, text_extracted, policies,
     csv, raised, navs, lang_checked_at, domains, position, get_failed,
     page_lang, page, returns, other >>

\* scroll_to_bottom is called on a page the browser has loaded.
InitScroll ==
  /\ pc = "scrolling"
  /\ domain \in Inputs
  /\ domains = << domain >>
  /\ position = 1
  /\ url = NormalizedUrl(domain)
  /\ url_2 = NormalizedUrl2(domain)
  /\ privacy_subdomains = << >>
  /\ is_en_flag = TRUE
  /\ is_timeout_flag = FALSE
  /\ is_outdated_flag = FALSE
  /\ needs_review = FALSE
  /\ home_outcome = "ok"
  /\ quits = 0
  /\ idx = 1
  /\ links = << >>
  /\ rank_candidates = NoBuckets
  /\ candidate_privacy_url_sorted = << >>
  /\ text_extracted = ""
  /\ policies = ""
  /\ csv = << >>
  /\ raised = FALSE
  /\ navs = << >>
  /\ lang_checked_at = -1
  /\ get_failed = FALSE
  /\ page_lang = NoLang
  /\ page = NoPage
  /\ returns = << >>
  /\ other = NoSession
  /\ \E h \in InitialHeights :
       scroll = [at |-> "start", height |-> h, grown |-> 0, last_height |-> 0,
                 new_height |-> 0, count |-> 0, calls |-> << >>]

\* last_height = execute_script("return document.body.scrollHeight"); count = 0
ScrollStart ==
  /\ scroll.at = "start"
  /\ scroll' = [scroll EXCEPT !.at = "scroll", !.last_height = scroll.height,
                              !.count = 0,
                              !.calls = Append(@, "scrollHeight")]
  /\ UNCHANGED pass

\* Mutant: the window is scrolled twice in an iteration.
ScrollDown_Twice ==
  /\ scroll.at = "scroll"
  /\ \E g \in {0, 1} :
       /\ g = 1 => scroll.grown < MaxGrowth
       /\ scroll' = [scroll EXCEPT !.at = "read", !.height = @ + g,
                                   !.grown = @ + g,
                                   !.calls = @ \o << "scrollTo", "scrollTo" >>]
  /\ UNCHANGED pass

\* execute_script("window.scrollTo(...)") and the pause, during which the
\* page may load more content and grow.
ScrollDown ==
  /\ scroll.at = "scroll"
  /\ \E g \in {0, 1} :
       /\ g = 1 => scroll.grown < MaxGrowth
       /\ scroll' = [scroll EXCEPT !.at = "read", !.height = @ + g,
                                   !.grown = @ + g,
                                   !.calls = Append(@, "scrollTo")]
  /\ UNCHANGED pass

\* new_height = execute_script("return document.body.scrollHeight")
ScrollRead ==
  /\ scroll.at = "read"
  /\ scroll' = [scroll EXCEPT !.at = "compare", !.new_height = scroll.height,
                              !.calls = Append(@, "scrollHeight")]
  /\ UNCHANGED pass

\* Mutant: the counter is not tested.
ScrollCompare_NoLimit ==
  /\ scroll.at = "compare"
  /\ scroll' =
       IF scroll.new_height = scroll.last_height
       THEN [scroll EXCEPT !.at = "returned"]
       ELSE [scroll EXCEPT !.last_height = scroll.new_height,
                           !.count = @ + 1, !.at = "scroll"]
  /\ UNCHANGED pass

\* if new_height == last_height: break; last_height = new_height;
\* count += 1; if count > 10: break
ScrollCompare ==
  /\ scroll.at = "compare"
  /\ scroll' =
       IF scroll.new_height = scroll.last_height
       THEN [scroll EXCEPT !.at = "returned"]
       ELSE [scroll EXCEPT !.last_height = scroll.new_height,
                           !.count = @ + 1,
                           !.at = IF scroll.count + 1 > ScrollLimit
                                  THEN "returned" ELSE "scroll"]
  /\ UNCHANGED pass

\* An execute_script call raises; nothing in scroll_to_bottom catches it.
ScrollRaises ==
  /\ scroll.at \in {"start", "scroll", "read"}
  /\ scroll' = [scroll EXCEPT !.at = "raised"]
  /\ UNCHANGED pass

NextScroll ==
  \/ ScrollStart
  \/ ScrollDown
  \/ ScrollRead
  \/ ScrollCompare
  \/ ScrollRaises

SpecScroll == InitScroll /\ [][NextScroll]_vars

\* The interpreter runs the function to its end.
FairScroll == SpecScroll /\ WF_vars(NextScroll)

\* ================================================================ claims

\* find_privacy_url has returned (or the pass has ended).
Returned == pc \in {"extract", "row", "done"}

\* The data row the pass wrote, when it wrote one.
LastRow == csv[Len(csv)]

NavsOf(phase) == SelectSeq(navs, LAMBDA n : n.phase = phase)

\* C1: when the initial homepage navigation times out, is_timeout_flag is
\* set, the candidate list stays empty, the homepage load is the only
\* navigation of the whole pass, and the row written for the domain carries
\* the status token DOMAIN TIMED OUT.
C1_HomeTimeout ==
  home_outcome = "timeout" =>
    /\ is_timeout_flag
    /\ privacy_subdomains = << >>
    /\ navs = << Nav("home", url) >>
    /\ Returned
    /\ pc = "done" =>
         /\ ~raised
         /\ Len(csv) = 2
         /\ LastRow[1] = PyStr(domain)
         /\ LastRow[2] = PyList(<< "DOMAIN TIMED OUT" >>)

C1_Witness ==
  /\ home_outcome = "timeout"
  /\ pc = "done"
  /\ Len(csv) = 2

\* C2: when the initial homepage navigation fails with another error,
\* is_outdated_flag is set, is_timeout_flag stays false, the candidate list
\* is empty and no further navigation is issued.
C2_HomeError ==
  home_outcome = "error" =>
    /\ is_outdated_flag
    /\ ~is_timeout_flag
    /\ privacy_subdomains = << >>
    /\ navs = << Nav("home", url) >>
    /\ Returned

C2_Witness ==
  /\ home_outcome = "error"
  /\ is_outdated_flag
  /\ pc = "done"

\* C3: when page_is_english returned false for the homepage, the candidate
\* list is empty and the homepage load is the only navigation of the run.
C3_NotEnglish ==
  (lang_checked_at # -1 /\ ~is_en_flag) =>
    /\ privacy_subdomains = << >>
    /\ Len(navs) = 1
    /\ navs[1].phase = "home"
    /\ Returned

C3_Witness ==
  /\ lang_checked_at # -1
  /\ ~is_en_flag
  /\ pc = "done"

\* C4: no URL occurs twice in privacy_subdomains, in any state.
C4_NoDuplicates ==
  \A m, n \in 1..Len(privacy_subdomains) :
     privacy_subdomains[m] = privacy_subdomains[n] => m = n

\* Seven probes (two direct paths, five links) were fetched and left four
\* candidates: every recordable page of the web is in the list once.
C4_Witness ==
  /\ Returned
  /\ Len(NavsOf("direct")) = 2
  /\ Len(NavsOf("link")) = 5
  /\ Len(privacy_subdomains) = 4


\* C5: the list find_privacy_url returns never holds the bare homepage, with
\* or without a trailing slash.
C5_NoHomepage ==
  Returned =>
    \A n \in 1..Len(privacy_subdomains) :
       /\ privacy_subdomains[n] # url
       /\ privacy_subdomains[n] # url \o "/"

PhaseOrder(phase) ==
  CASE phase = "home" -> 1
    [] phase = "direct" -> 2
    [] phase = "reload" -> 3
    [] phase = "link" -> 4
    [] phase = "extract" -> 5

\* C6: the language check runs right after the homepage load and before any
\* other navigation, and the navigations come in the order homepage,
\* direct paths, homepage reload, link candidates.
C6_PhaseOrder ==
  /\ \A m, n \in 1..Len(navs) :
       m < n => PhaseOrder(navs[m].phase) <= PhaseOrder(navs[n].phase)
  /\ Len(NavsOf("home")) <= 1
  /\ Len(NavsOf("reload")) <= 1
  /\ lang_checked_at # -1 => (lang_checked_at = 1 /\ navs[1].phase = "home")
  /\ \A n \in 1..Len(navs) :
       navs[n].phase \in {"direct", "reload", "link"} =>
         (lang_checked_at # -1 /\ n > lang_checked_at)

C6_Witness ==
  /\ Len(NavsOf("direct")) = 2
  /\ Len(NavsOf("reload")) = 1
  /\ Len(NavsOf("link")) >= 2
  /\ lang_checked_at = 1

\* The targets of the anchors of rank r, in page order.
TargetsWhere(Test(_)) ==
  LET sel == SelectSeq(links, Test)
  IN  [n \in 1..Len(sel) |-> urljoin(url, sel[n].href)]

\* C7: the flattened candidates are the rank-1 anchors, then the rank-2
\* anchors, then the rank-3 anchors, each rank in page order; the anchors
\* A, B, C of the example flatten to C, A, B.
C7_RankOrder ==
  pc = "ranked" =>
    /\ candidate_privacy_url_sorted =
         TargetsWhere(LAMBDA a : RankOf(a) = 1)
           \o TargetsWhere(LAMBDA a : RankOf(a) = 2)
           \o TargetsWhere(LAMBDA a : RankOf(a) = 3)
    /\ links = << Anchor("Privacy", "/about"), Anchor("About", "/privacy"),
                  Anchor("Privacy Policy", "/privacy-policy") >>
         => candidate_privacy_url_sorted =
              << "https://ex.com/privacy-policy", "https://ex.com/about",
                 "https://ex.com/privacy" >>

C7_Witness ==
  /\ pc = "ranked"
  /\ links = << Anchor("Privacy", "/about"), Anchor("About", "/privacy"),
                Anchor("Privacy Policy", "/privacy-policy") >>
  /\ Len(candidate_privacy_url_sorted) = 3

Glossary == {Lower(privacy_name_list[n]) : n \in 1..Len(privacy_name_list)}

\* A glossary keyword occurs in s, letter case aside.
GlossaryHit(s) == LET low == Lower(s) IN \E kw \in Glossary : Contains(kw, low)

InText(a) == GlossaryHit(a.text)
InHref(a) == a.href # "" /\ GlossaryHit(a.href)

\* C8: rank 1 holds exactly the anchors with a keyword in text and href,
\* rank 2 those with one in the text only, rank 3 those with one in the href
\* only, and an anchor with neither is in no bucket.
C8_Placement ==
  pc = "ranked" =>
    /\ rank_candidates.rank_1 = TargetsWhere(LAMBDA a : InText(a) /\ InHref(a))
    /\ rank_candidates.rank_2 = TargetsWhere(LAMBDA a : InText(a) /\ ~InHref(a))
    /\ rank_candidates.rank_3 = TargetsWhere(LAMBDA a : ~InText(a) /\ InHref(a))
    /\ Len(rank_candidates.rank_1) + Len(rank_candidates.rank_2)
         + Len(rank_candidates.rank_3)
       = Len(links) - Len(SelectSeq(links, LAMBDA a : ~InText(a) /\ ~InHref(a)))

\* One anchor of each kind was ranked, one of them without href.
C8_Witness ==
  /\ pc = "ranked"
  /\ Len(links) = 4
  /\ Len(rank_candidates.rank_1) = 1
  /\ Len(rank_candidates.rank_2) = 1
  /\ Len(rank_candidates.rank_3) = 1
  /\ \E n \in 1..4 : links[n].href = "" /\ InText(links[n])

\* C9: the link candidates fetched are the first five entries (all, when
\* there are fewer) of the flattened list, in that order.
C9_TopFive ==
  LET fetched == NavsOf("link")
      most == IF Len(candidate_privacy_url_sorted) < 5
              THEN Len(candidate_privacy_url_sorted) ELSE 5
  IN  /\ Len(fetched) <= most
      /\ \A n \in 1..Len(fetched) :
           fetched[n].url = candidate_privacy_url_sorted[n]
      /\ Returned => Len(fetched) = most

C9_Witness ==
  /\ Returned
  /\ Len(candidate_privacy_url_sorted) > 5
  /\ Len(NavsOf("link")) = 5

\* C10 as stated: the accumulation changes only when it was empty or the
\* similarity of the page's text to it is strictly below 0.7.
C10_StrictlyBelow ==
  [][ text_extracted' # text_extracted =>
        \/ text_extracted = ""
        \/ LET added == SubSeq(text_extracted', Len(text_extracted) + 1,
                               Len(text_extracted'))
           IN  2 * MatchSize(text_extracted, added) * 10
                 < 7 * (Len(text_extracted) + Len(added)) ]_vars

\* C10 as amended: the accumulation changes only when it was empty or the
\* page's text is appended with a similarity of at most 0.7; a page more
\* similar than 0.7 never changes it.
C10_AtMost ==
  [][ text_extracted' # text_extracted =>
        \/ text_extracted = ""
        \/ LET added == SubSeq(text_extracted', Len(text_extracted) + 1,
                               Len(text_extracted'))
           IN  /\ text_extracted' = text_extracted \o added
               /\ 2 * MatchSize(text_extracted, added) * 10
                    <= 7 * (Len(text_extracted) + Len(added)) ]_vars

\* A page exactly 0.7 similar to the accumulation was appended.
C10_Witness ==
  /\ text_extracted = "abcdefghij" \o "abcdefgxyz"
  /\ 2 * MatchSize("abcdefghij", "abcdefgxyz") * 10 = 7 * 20

\* similarity(a, b) is tenths/10.
RatioIs(a, b, tenths) == 2 * MatchSize(a, b) * 10 = tenths * (Len(a) + Len(b))

\* C11: extract_policies run on two pages with non-empty texts T1, T2
\* returns exactly T1 when their similarity is 0.9 and T1 followed by T2
\* when it is 0.3.
C11_SimilarityGate ==
  (pc = "row" /\ Len(privacy_subdomains) = 2) =>
    LET T1 == TextAt(privacy_subdomains[1])
        T2 == TextAt(privacy_subdomains[2])
    IN  (T1 # "" /\ T2 # "") =>
          /\ RatioIs(T1, T2, 9) => policies = T1
          /\ RatioIs(T1, T2, 3) => policies = T1 \o T2

\* The second page, 0.9 similar to the first, was dropped.
C11_Witness ==
  /\ pc = "row"
  /\ privacy_subdomains =
       << "https://example.com/privacy", "https://example.com/privacy-policy" >>
  /\ RatioIs("abcdefghij", "abcdefghiX", 9)
  /\ policies = "abcdefghij"
  /\ Len(NavsOf("extract")) = 2

\* C12: extract_policies([]) issues no navigation, quits the driver and
\* returns the sentinel; on a non-empty list it navigates to every URL,
\* quits the driver and returns the accumulated text, never the sentinel,
\* also when that text is empty.
C12_EmptyOrText ==
  /\ privacy_subdomains = << >> =>
       /\ navs = << >>
       /\ pc = "row" => (quits = 1 /\ policies = Sentinel)
  /\ (privacy_subdomains # << >> /\ pc = "row") =>
       /\ Len(navs) = Len(privacy_subdomains)
       /\ quits = 1
       /\ policies = text_extracted
       /\ policies # Sentinel
       /\ (\A n \in 1..Len(privacy_subdomains) :
             TextAt(privacy_subdomains[n]) = "") => policies = ""

\* A list of one page without text returned the empty string.
C12_Witness ==
  /\ pc = "row"
  /\ privacy_subdomains = << "https://example.org/privacy" >>
  /\ policies = ""
  /\ quits = 1

\* The registrable domain of a URL whose host is under a one-label public
\* suffix: the last two labels of the host.
RegistrableDomain(u) ==
  LET o == Origin(u)
      from == IF StartsWith(u, "https://") THEN 9 ELSE 8
      host == SubSeq(o, from, Len(o))
      label == TldDomain(u)
  IN  IF \E k \in 1..Len(host) : SubSeq(host, k, k) = "."
      THEN CHOOSE t \in {SubSeq(host, k, Len(host)) : k \in 1..Len(host)} :
             \E k \in 1..Len(host) :
                /\ t = SubSeq(host, k, Len(host))
                /\ StartsWith(t, label \o ".")
                /\ ~Contains(".", SubSeq(t, Len(label) + 2, Len(t)))
      ELSE host

\* C13: once extract_policies has returned, needs_review is set if some URL
\* of its list has a registrable domain other than the input domain's.
C13_OffDomainFlagged ==
  pc = "row" =>
    ((\E n \in 1..Len(privacy_subdomains) :
        RegistrableDomain(privacy_subdomains[n]) # RegistrableDomain(url))
     => needs_review)

\* C14: the row of a pass carries DOMAIN TIMED OUT when is_timeout_flag is
\* set, else DOMAIN OUTDATED when is_outdated_flag is set, else DOMAIN NOT IN
\* ENGLISH when is_en_flag is false, each with the text 'No privacy url
\* found' and needs_review False; with no flag set it carries the
\* candidates, the extracted text (stripped) and the session's needs_review.
C14_RowFields ==
  (pc = "done" /\ ~raised) =>
    /\ Len(csv) = 2
    /\ LastRow[1] = PyStr(domain)
    /\ IF is_timeout_flag
       THEN /\ LastRow[2] = PyList(<< "DOMAIN TIMED OUT" >>)
            /\ LastRow[3] = PyStr("No privacy url found")
            /\ LastRow[4] = PyBool(FALSE)
       ELSE IF is_outdated_flag
       THEN /\ LastRow[2] = PyList(<< "DOMAIN OUTDATED" >>)
            /\ LastRow[3] = PyStr("No privacy url found")
            /\ LastRow[4] = PyBool(FALSE)
       ELSE IF ~is_en_flag
       THEN /\ LastRow[2] = PyList(<< "DOMAIN NOT IN ENGLISH" >>)
            /\ LastRow[3] = PyStr("No privacy url found")
            /\ LastRow[4] = PyBool(FALSE)
       ELSE /\ LastRow[2] = IF privacy_subdomains = << >>
                            THEN PyStr("Not Found")
                            ELSE PyList(privacy_subdomains)
            /\ LastRow[3] = PyStr(Strip(policies))
            /\ LastRow[4] = PyBool(needs_review)

\* A pass without flag wrote its two candidates, its text and needs_review
\* True (one candidate is off the domain).
C14_Witness ==
  /\ pc = "done"
  /\ ~raised
  /\ ~is_timeout_flag /\ ~is_outdated_flag /\ is_en_flag
  /\ Len(privacy_subdomains) = 2
  /\ needs_review
  /\ LastRow[2] = PyList(privacy_subdomains)
  /\ LastRow[3] = PyStr("abcdefghijabcdefgxyz")
  /\ LastRow[4] = PyBool(TRUE)

\* The data rows of the output file (the first row is the header).
DataRows == IF csv = << >> THEN 0 ELSE Len(csv) - 1

\* C15: when the pass of the domain at some position of the list has ended,
\* the file holds one row for each domain up to that position; after the
\* last domain it holds as many rows as the list has domains.
C15_RowPerDomain ==
  pc = "done" => DataRows = position

\* The loop has ended after the last domain of the list.
BatchDone == pc = "done" /\ position = Len(domains)

\* C16: whatever a pass raises, the loop takes the domains one after the
\* other, each pass starting at its beginning, and every run ends with the
\* pass of the last domain ended.
C16_BatchCompletes ==
  /\ [][position' # position =>
          /\ position' = position + 1
          /\ domain' = domains[position + 1]
          /\ pc' = "start"]_vars
  /\ <>[]BatchDone

\* The pass of the first domain raised and wrote no row; the second
\* domain was processed all the same and its row is in the file.
C16_Witness ==
  /\ BatchDone
  /\ Len(domains) = 2
  /\ domains[1] # domains[2]
  /\ raised
  /\ DataRows = 1
  /\ LastRow[1] = PyStr(domains[2])

\* C17: when the pass of a session whose browser was started has ended,
\* driver.quit has been called exactly once.
C17_QuitOnce ==
  (pc = "done" /\ home_outcome # "none") => quits = 1

\* The phase of the last navigation issued.
LastPhase == navs[Len(navs)].phase

LanguageChecked == lang_checked_at # -1 /\ page_lang # NoLang

\* C19: when the lang attribute of the html element was read and starts
\* with "en", letter case aside, page_is_english returns True whatever the
\* detector gives.
C19_LangAttributeDecides ==
  (/\ LanguageChecked
   /\ ~page_lang.attr.raises
   /\ StartsWith(Lower(page_lang.attr.value), "en")) => is_en_flag

\* C20: when the detector raised, page_is_english returns True and the
\* direct-path scan is next, whatever the lang attribute was.
C20_DetectorFailOpen ==
  (LanguageChecked /\ page_lang.det.raises) => (is_en_flag /\ pc = "direct")

\* The token "privacy" occurs in the title or in the source, letter case
\* aside.
PrivacyToken(p) ==
  \/ Contains("privacy", Lower(p.title))
  \/ Contains("privacy", Lower(p.page_source))

\* The source holds one of the 404/error phrases, letter case aside.
ErrorPhrase(p) ==
  \E n \in 1..Len(page_not_found_patterns) :
     Contains(Lower(page_not_found_patterns[n]), Lower(p.page_source))

\* C21: page_is_valid_privacy_page answers True exactly for a page that has
\* the token "privacy" in its title or source and none of the 404/error
\* phrases in its source, and it changes nothing of the session.
C21_ValidIff ==
  [][ pc = "validate" =>
        /\ (pc' = "record") <=> (PrivacyToken(page) /\ ~ErrorPhrase(page))
        /\ UNCHANGED << privacy_subdomains, session, needs_review,
                        text_extracted, page, navs >> ]_vars

\* A page that mentions "privacy" (in its source only, in capitals) was
\* rejected for its 404 phrase, and the scan went on.
C21_Witness ==
  /\ page = PgVendor
  /\ LastPhase = "direct"
  /\ ~get_failed
  /\ pc = "direct"
  /\ idx = 2
  /\ privacy_subdomains = << >>

\* The probes of the direct-path scan, in the order of the fixed list.
DirectProbes ==
  << Nav("direct", url \o "/privacy"), Nav("direct", url \o "/privacy-policy") >>

\* C22: after the homepage was judged English the direct-path scan probes
\* /privacy and then /privacy-policy, whatever the first probe gave; when
\* the scan is over both have been probed.
C22_AllSuffixes ==
  (lang_checked_at # -1 /\ is_en_flag) =>
    LET d == NavsOf("direct")
    IN  /\ Len(d) <= 2
        /\ \A n \in 1..Len(d) : d[n] = DirectProbes[n]
        /\ pc \notin {"direct", "validate", "record"} => d = DirectProbes

\* Both probes were hits and both are recorded.
C22_Witness ==
  /\ pc = "reload"
  /\ NavsOf("direct") = DirectProbes
  /\ Len(privacy_subdomains) = 2

\* The scrollTo calls scroll_to_bottom has made.
Scrolls == Len(SelectSeq(scroll.calls, LAMBDA c : c = "scrollTo"))

\* C23 as stated: scroll_to_bottom scrolls at most 10 times.
C23_AtMostTen == Scrolls <= 10

\* C23 as amended: scroll_to_bottom ends; it returns right after a scroll
\* that left the height unchanged; it scrolls at most 11 times, and exactly
\* 11 times on a page that grew after every scroll.
C23_Terminates ==
  /\ [](Scrolls <= 11)
  /\ []((scroll.at = "returned" /\ scroll.grown = Scrolls) => Scrolls = 11)
  /\ [][(scroll.at = "compare" /\ scroll.new_height = scroll.last_height)
          => scroll'.at = "returned"]_vars
  /\ <>(scroll.at \in {"returned", "raised"})

\* The page grew after each of 11 scrolls and scroll_to_bottom returned.
C23_Witness ==
  /\ scroll.at = "returned"
  /\ scroll.grown = 11
  /\ Scrolls = 11
  /\ scroll.count = 11

\* The height read after the first scroll is the height read before it.
FirstScrollChangedNothing ==
  /\ scroll.at \in {"compare", "returned"}
  /\ scroll.count = 0
  /\ scroll.new_height = scroll.last_height

\* C28: when the first scroll leaves the height unchanged, scroll_to_bottom
\* has made exactly the calls height read, scroll, height read, and its
\* next step is to return without another call.
C28_OneScroll ==
  /\ [](FirstScrollChangedNothing =>
          scroll.calls = << "scrollHeight", "scrollTo", "scrollHeight" >>)
  /\ [][(FirstScrollChangedNothing /\ scroll.at = "compare") =>
          (scroll'.at = "returned" /\ scroll'.calls = scroll.calls)]_vars

\* scroll_to_bottom returned after one scroll of a page that did not grow.
C28_Witness ==
  /\ scroll.at = "returned"
  /\ scroll.grown = 0
  /\ scroll.height = 1
  /\ scroll.last_height = 1
  /\ scroll.new_height = 1
  /\ Scrolls = 1
  /\ Len(scroll.calls) = 3

WwwForm(u) ==
  LET k == CHOOSE n \in 1..(Len(u) - 2) :
             /\ SubSeq(u, n, n + 2) = "://"
             /\ \A m \in 1..(n - 1) : SubSeq(u, m, m + 2) # "://"
  IN  SubSeq(u, 1, k + 2) \o "www." \o SubSeq(u, k + 3, Len(u))

\* C26 as stated: a direct-path probe whose page passed the validation adds
\* the browser's current URL to the candidates unless it is a candidate
\* already or is the homepage with a trailing slash, bare or with "www.";
\* a probe whose page failed the validation adds nothing.
C26_DirectRecording ==
  [][ /\ pc = "record" =>
           privacy_subdomains' =
             IF \/ InList(page.current_url, privacy_subdomains)
                \/ page.current_url = url \o "/"
                \/ page.current_url = WwwForm(url) \o "/"
             THEN privacy_subdomains
             ELSE Append(privacy_subdomains, page.current_url)
      /\ (pc = "validate" /\ pc' # "record") =>
           privacy_subdomains' = privacy_subdomains ]_vars

\* A step of the link scan whose driver.get came back with a page.
LinkFetched ==
  /\ pc = "links"
  /\ Len(navs') = Len(navs) + 1
  /\ ~get_failed'

\* C27: a fetched link candidate adds the browser's current URL to the
\* candidates exactly when the page has the token "privacy" in its title or
\* source and the URL is not a candidate yet; an error phrase in the source
\* does not matter, and nothing else of the list changes.
C27_LinkRecording ==
  [][ LinkFetched =>
        privacy_subdomains' =
          IF PrivacyToken(page') /\ ~InList(page'.current_url, privacy_subdomains)
          THEN Append(privacy_subdomains, page'.current_url)
          ELSE privacy_subdomains ]_vars

\* The link scan recorded a page that has a 404 phrase next to "PRIVACY",
\* under the URL the browser ended on and not the one it fetched.
C27_Witness ==
  /\ Len(navs) > 0
  /\ LastPhase = "link"
  /\ page = PgVendor
  /\ ErrorPhrase(page)
  /\ InList(PgVendor.current_url, privacy_subdomains)
  /\ navs[Len(navs)].url # PgVendor.current_url

\* The non-empty texts of the pages the running call has visited, in order.
TextsSeen ==
  SelectSeq([n \in 1..(idx - 1) |-> TextAt(privacy_subdomains[n])],
            LAMBDA t : t # "")

\* A step of extract_policies that visited a page.
PageVisited ==
  /\ pc = "extract"
  /\ Len(navs') = Len(navs) + 1
  /\ ~get_failed'

\* C29: the accumulation of extract_policies is empty until a visited page
\* yields text, then starts with the whole text of the first such page, up
\* to the value returned; a page whose text is empty leaves the
\* accumulation as it was, and the first text is taken as it is.
C29_FirstTextIsPrefix ==
  /\ [](pc \in {"extract", "row"} =>
          IF TextsSeen = << >>
          THEN text_extracted = ""
          ELSE StartsWith(text_extracted, TextsSeen[1]))
  /\ [](pc = "row" /\ privacy_subdomains # << >> =>
          returns[Len(returns)] = text_extracted)
  /\ [][PageVisited =>
          /\ page'.text = "" => text_extracted' = text_extracted
          /\ text_extracted = "" => text_extracted' = page'.text]_vars

\* The first page had no text and the second one's text is the result.
C29_Witness ==
  /\ pc = "row"
  /\ Len(privacy_subdomains) = 2
  /\ TextAt(privacy_subdomains[1]) = ""
  /\ TextAt(privacy_subdomains[2]) = "abcdefghij"
  /\ returns = << "abcdefghij" >>

\* The outcome conditions of a session that hold.
OutcomesHeld ==
  {o \in {"timed_out", "outdated", "not_english"} :
     \/ o = "timed_out" /\ is_timeout_flag
     \/ o = "outdated" /\ is_outdated_flag
     \/ o = "not_english" /\ ~is_en_flag}

StatusCells ==
  { PyList(<< "DOMAIN TIMED OUT" >>), PyList(<< "DOMAIN OUTDATED" >>),
    PyList(<< "DOMAIN NOT IN ENGLISH" >>) }

\* C30: at most one of is_timeout_flag, is_outdated_flag and a false
\* is_en_flag holds; once find_privacy_url returned with one of them the
\* candidate list is empty, and so it is behind every row that carries a
\* status token.
C30_OneOutcome ==
  /\ Cardinality(OutcomesHeld) <= 1
  /\ (Returned /\ OutcomesHeld # {}) => privacy_subdomains = << >>
  /\ (pc = "done" /\ ~raised /\ LastRow[2] \in StatusCells) =>
        privacy_subdomains = << >>

\* A pass that found the homepage not in English wrote its status row.
C30_Witness ==
  /\ pc = "done"
  /\ OutcomesHeld = {"not_english"}
  /\ privacy_subdomains = << >>
  /\ Len(navs) = 1
  /\ LastRow[2] = PyList(<< "DOMAIN NOT IN ENGLISH" >>)

\* What a scraper ends with: its candidates, its flags and its text.
Outcome(s) ==
  [candidates |-> s.privacy_subdomains, timed_out |-> s.is_timeout_flag,
   outdated |-> s.is_outdated_flag, english |-> s.is_en_flag,
   needs_review |-> s.needs_review, text |-> s.policies]

\* The outcomes a scraper for a domain of BatchInputs ends with when it is
\* the only one: one of the three status outcomes, or no candidate, or the
\* site's policy page and its text.
AloneOutcomes(d) ==
  LET none(t, o, e) ==
        [candidates |-> << >>, timed_out |-> t, outdated |-> o, english |-> e,
         needs_review |-> FALSE, text |-> Sentinel]
  IN  { none(TRUE, FALSE, TRUE), none(FALSE, TRUE, TRUE),
        none(FALSE, FALSE, FALSE), none(FALSE, FALSE, TRUE),
        [candidates |-> << NormalizedUrl(d) \o "/privacy" >>,
         timed_out |-> FALSE, outdated |-> FALSE, english |-> TRUE,
         needs_review |-> FALSE, text |-> "abcdefghij"] }

Ended(s) == s.pc \in {"row", "done"} /\ ~s.raised

\* C25: with the steps of two scrapers for different domains interleaved in
\* any order, a step of one leaves everything of the other as it was,
\* handing over changes nothing of either, and each scraper ends with an
\* outcome it can end with when run alone.
C25_NoSharedState ==
  /\ [][domain' = domain => other' = other]_vars
  /\ [][domain' # domain => (other' = Running /\ Running' = other)]_vars
  /\ [](\A s \in {Running, other} :
          Ended(s) => Outcome(s) \in AloneOutcomes(s.domain))

\* Both scrapers ended, each with the policy page of its own site, the one
\* constructed second having written its row first.
C25_Witness ==
  /\ pc = "done"
  /\ other.pc = "done"
  /\ domain = "a.org"
  /\ privacy_subdomains = << "https://a.org/privacy" >>
  /\ other.privacy_subdomains = << "http://b.net/privacy" >>
  /\ policies = "abcdefghij"
  /\ other.policies = "abcdefghij"
  /\ Len(csv) = 3
  /\ csv[2][1] = PyStr("http://b.net")

\* A step that issued a navigation of the given phase, and the get raised.
NavFailed(phase) ==
  /\ Len(navs') = Len(navs) + 1
  /\ navs'[Len(navs')].phase = phase
  /\ get_failed'

\* C31: only the step of the initial homepage load (and __init__) writes
\* is_timeout_flag and is_outdated_flag; a failed direct-path probe, reload
\* or link candidate leaves both false and the recorded candidates as they
\* were, and a failed reload makes find_privacy_url return that list.
C31_FlagsOnlyAtHome ==
  /\ [][pc \notin {"start", "home"} =>
          UNCHANGED << is_timeout_flag, is_outdated_flag >>]_vars
  /\ [][(NavFailed("direct") \/ NavFailed("reload") \/ NavFailed("link")) =>
          /\ ~is_timeout_flag' /\ ~is_outdated_flag'
          /\ privacy_subdomains' = privacy_subdomains]_vars
  /\ [][NavFailed("reload") => pc' = "extract"]_vars

\* The reload failed after a direct-path hit: find_privacy_url has returned
\* the one candidate, no flag set.
C31_Witness ==
  /\ pc = "extract"
  /\ get_failed
  /\ LastPhase = "reload"
  /\ Len(privacy_subdomains) = 1
  /\ ~is_timeout_flag
  /\ ~is_outdated_flag
  /\ Len(NavsOf("link")) = 0

\* Sequence a is sequence b or b with one element appended.
SameOrOneMore(a, b) ==
  \/ a = b
  \/ Len(a) = Len(b) + 1 /\ SubSeq(a, 1, Len(b)) = b

\* C32: every step of a pass leaves privacy_subdomains as it was or appends
\* one URL to it; the URL appended is the one the browser is on, after a
\* direct-path probe or after a link candidate's fetch; and no direct-path
\* probe is issued after a link candidate's fetch, so direct-path hits
\* precede link-scan hits and these stand in the order of their fetches.
C32_AppendOnly ==
  /\ [][SameOrOneMore(privacy_subdomains', privacy_subdomains)]_vars
  /\ [][privacy_subdomains' # privacy_subdomains =>
          \/ /\ pc = "record"
             /\ privacy_subdomains' = Append(privacy_subdomains, page.current_url)
          \/ /\ pc = "links"
             /\ privacy_subdomains' = Append(privacy_subdomains, page'.current_url)]_vars
  /\ [](\A m, n \in 1..Len(navs) :
          (m < n /\ navs[m].phase = "link") => navs[n].phase \in {"link", "extract"})

\* find_privacy_url returned a direct-path hit followed by two link-scan
\* hits in the order they were fetched.
C32_Witness ==
  /\ Returned
  /\ privacy_subdomains =
       << PgPolicy.current_url, PgVendor.current_url, PgHome.current_url >>
  /\ Len(NavsOf("direct")) = 2
  /\ Len(NavsOf("link")) >= 2

\* The navigations find_privacy_url issued.
FindNavs == SelectSeq(navs, LAMBDA n : n.phase # "extract")

\* C33: find_privacy_url issues at most 9 navigations, 1 homepage load,
\* 2 direct-path probes, 1 reload and 5 link candidates, and its list never
\* holds more URLs than probes and candidates were fetched, 7 at most.
C33_AtMostNine ==
  /\ Len(NavsOf("home")) <= 1
  /\ Len(NavsOf("direct")) <= 2
  /\ Len(NavsOf("reload")) <= 1
  /\ Len(NavsOf("link")) <= 5
  /\ Len(FindNavs) <= 9
  /\ Len(privacy_subdomains) <= Len(NavsOf("direct")) + Len(NavsOf("link"))
  /\ Len(privacy_subdomains) <= 7

\* find_privacy_url returned after 9 navigations, with more ranked
\* candidates than it fetched.
C33_Witness ==
  /\ Returned
  /\ Len(FindNavs) = 9
  /\ Len(NavsOf("link")) = 5
  /\ Len(candidate_privacy_url_sorted) > 5
  /\ Len(privacy_subdomains) >= 3

\* The navigations extract_policies issued.
ExtractNavs == NavsOf("extract")

\* C34: the navigations of extract_policies are the URLs of its list, each
\* once and in list order, all of them once it returned; and needs_review
\* is set exactly when a URL navigated to, whether or not its page loaded
\* and whatever URL the browser ended on, does not contain the domain
\* label of the session's URL.
C34_EveryUrlInOrder ==
  /\ Len(ExtractNavs) <= Len(privacy_subdomains)
  /\ \A n \in 1..Len(ExtractNavs) : ExtractNavs[n].url = privacy_subdomains[n]
  /\ (pc \in {"row", "done"} /\ ~raised) =>
        Len(ExtractNavs) = Len(privacy_subdomains)
  /\ needs_review <=>
        \E n \in 1..Len(ExtractNavs) :
           ~Contains(TldDomain(url), privacy_subdomains[n])

\* The first URL of the list is off the domain and its page did not load:
\* needs_review is set all the same.
C34_Witness ==
  /\ raised
  /\ get_failed
  /\ Len(ExtractNavs) = 1
  /\ privacy_subdomains[1] = PgVendor.current_url
  /\ needs_review

\* The positions of a pass inside find_privacy_url.
FindPhases ==
  {"home", "lang", "direct", "validate", "record", "reload", "links"}

\* C35: needs_review is false when __init__ is done and as long as
\* find_privacy_url runs, no step outside extract_policies changes it, and
\* a step of extract_policies never takes it from true to false.
C35_ReviewMonotone ==
  /\ [](pc \in FindPhases => ~needs_review)
  /\ [][pc = "start" => ~needs_review']_vars
  /\ [][pc # "extract" => needs_review' = needs_review]_vars
  /\ [][(pc = "extract" /\ needs_review) => needs_review']_vars

\* extract_policies returned with needs_review set by the first URL, the
\* second one being on the domain.
C35_Witness ==
  /\ pc = "row"
  /\ Len(privacy_subdomains) = 2
  /\ privacy_subdomains[1] = PgVendor.current_url
  /\ privacy_subdomains[2] = PgHome.current_url
  /\ Len(ExtractNavs) = 2
  /\ needs_review

\* The homepage loaded and is in English, and find_privacy_url found
\* nothing.
NothingFound ==
  /\ home_outcome = "ok"
  /\ is_en_flag
  /\ ~is_timeout_flag
  /\ ~is_outdated_flag
  /\ privacy_subdomains = << >>

\* C36: a pass whose homepage loaded, is English and yielded no candidate
\* ends without exception, the file holding the header and one row for the
\* domain: 'Not Found', the text 'No privacy url found', needs_review False.
C36_NotFoundRow ==
  (pc = "done" /\ NothingFound) =>
    /\ ~raised
    /\ csv = << HeaderRow,
                << PyStr(domain), PyStr("Not Found"),
                   PyStr("No privacy url found"), PyBool(FALSE) >> >>

\* Both probes, the reload's anchors and every link candidate were tried
\* and none gave a candidate: the row says 'Not Found'.
C36_Witness ==
  /\ pc = "done"
  /\ NothingFound
  /\ Len(NavsOf("link")) >= 1
  /\ Len(csv) = 2
  /\ LastRow[2] = PyStr("Not Found")
  /\ quits = 1

\* C37: a step that changes the output file is one save_to_csv call: on
\* the missing file it writes the header and one data row, on an existing
\* file it appends one data row after the rows it holds, which stay as
\* they are; so the header is the first row and appears once.
C37_AppendOnlySink ==
  /\ [][csv' # csv =>
          /\ pc = "row"
          /\ IF csv = << >>
             THEN Len(csv') = 2 /\ csv'[1] = HeaderRow
             ELSE Len(csv') = Len(csv) + 1 /\ SubSeq(csv', 1, Len(csv)) = csv
          /\ csv'[Len(csv')][1] = PyStr(domain)]_vars
  /\ [](\A n \in 1..Len(csv) : (csv[n] = HeaderRow) <=> (n = 1))

\* Two passes wrote their rows after the one header.
C37_Witness ==
  /\ BatchDone
  /\ Len(domains) = 2
  /\ Len(csv) = 3
  /\ csv[1] = HeaderRow
  /\ csv[2][1] = PyStr(domains[1])
  /\ csv[3][1] = PyStr(domains[2])

\* The input starts with 'http://' or 'https://'.
GivenWithScheme ==
  \/ Len(domain) >= 7 /\ SubSeq(domain, 1, 7) = "http://"
  \/ Len(domain) >= 8 /\ SubSeq(domain, 1, 8) = "https://"

\* C38: once __init__ has assigned them, url is the input with 'https://'
\* in front and url_2 the input with 'https://www.' in front, or both are
\* the input itself when it came with a scheme; and find_privacy_url starts
\* with an empty list, is_en_flag True and the other three flags False.
C38_Normalized ==
  /\ pc # "start" =>
       /\ url = IF GivenWithScheme THEN domain ELSE "https://" \o domain
       /\ url_2 = IF GivenWithScheme THEN domain ELSE "https://www." \o domain
  /\ pc = "home" =>
       /\ privacy_subdomains = << >>
       /\ is_en_flag
       /\ ~is_timeout_flag
       /\ ~is_outdated_flag
       /\ ~needs_review

\* A session for an input given with its scheme is constructed: both URLs
\* are the input.
C38_Witness ==
  /\ pc = "home"
  /\ domain = "https://ex.com"
  /\ url = "https://ex.com"
  /\ url_2 = "https://ex.com"
  /\ privacy_subdomains = << >>
  /\ navs = << >>

====
